---- MODULE Spec2Model ----
(***************************************************************************)
(* A model of tmppy's front-end elaboration (_py2tmp/ast_to_ir3.py), of    *)
(* the IR0 transformation framework (_py2tmp/transform_ir0.py) and of the  *)
(* C++ emitter (_py2tmp/ir0_to_cpp.py).                                    *)
(*                                                                         *)
(* Python values are modelled as records tagged by a field k.  A module is *)
(* read the way the two passes of module_ast_to_ir3 read it: pass 1 looks  *)
(* only at the signature of each top-level item, so the items are drawn    *)
(* one by one in pass 1 and recorded in `module`; pass 2 walks the         *)
(* recorded items and draws the statements of each function body as the    *)
(* loop of statements_ast_to_ir3 reaches them.                             *)
(***************************************************************************)
EXTENDS Integers, Sequences, FiniteSets, TLC

VARIABLES
    phase,          \* position of module_ast_to_ir3: pass1, pass2, body, done, error
    module,         \* module_ast_node.body, as far as pass 1 has read it
    pos,            \* index of the item the 2nd pass is at
    symbol_table,   \* compilation_context.symbol_table.symbols_by_name (root scope)
    custom_types,   \* compilation_context.custom_types_symbol_table.symbols_by_name
    partial_fns,    \* partially_typechecked_function_definitions_by_name
    cur,            \* the call of function_def_ast_to_ir3 in progress
    last_stmt,      \* the statement (or item) elaborated by the last step
    error,          \* the CompilationError raised, NoneV if none
    function_defns, \* function_defns of the Module being built
    assertions,     \* toplevel_assertions: the messages of the elaborated top-level assertions
    header,         \* the ir0.Header handed to header_to_cpp / transform_header
    generator,      \* identifier generators: how many identifiers each has yielded
    emit,           \* the calls of header_to_cpp in progress, one per run
    xform           \* the call of Transformation.transform_header in progress

elabVars == <<phase, module, pos, symbol_table, custom_types, partial_fns, cur,
              last_stmt, error, function_defns, assertions>>

ir0Vars == <<header, generator, emit, xform>>

-----------------------------------------------------------------------------
(* A value computed once and used by what follows, as a local variable of *)
(* the source is.                                                          *)
With(value, Body(_)) == Body(value)

(* Python's None, and the empty dict.                                      *)
NoneV == [k |-> "None"]

(* No Header is being emitted or transformed.                              *)
Ir0Idle == header = NoneV /\ generator = <<0, 0>> /\ emit = NoneV /\ xform = NoneV

EmptyTable == [n \in {} |-> NoneV]

(* An AST node is named by its place in the module: <<i>> is the i-th      *)
(* top-level item, <<i, j>> the j-th statement of its body, <<i, 0, j>>    *)
(* its j-th parameter, and so on down the tree.  NoNode stands for None.   *)
NoNode == <<>>

(* ir3 expression types.                                                   *)
BoolType == [k |-> "Bool"]

IntType == [k |-> "Int"]

BottomType == [k |-> "Bottom"]

FunctionType(argtypes, returns) == [k |-> "Fn", argtypes |-> argtypes, returns |-> returns]

TypeType == [k |-> "Type"]

ListType(elem_type) == [k |-> "List", elem_type |-> elem_type]

SetType(elem_type) == [k |-> "Set", elem_type |-> elem_type]

CustomType(name, arg_types, is_exception_class) ==
    [k |-> "Custom", name |-> name, arg_types |-> arg_types,
     is_exception_class |-> is_exception_class]

(* A CompilationError: the message (a sequence of fragments, the formatted *)
(* values among them), the node it is located at, and its notes.           *)
CompilationError(node, msg, notes) == [k |-> "CompilationError", node |-> node, msg |-> msg, notes |-> notes]

(* SymbolTable.add_symbol: symbols_by_name[name] = (Symbol, node, partial) *)
TableAddSymbol(table, name, type, node, partial, may_throw) ==
    [n \in DOMAIN table \cup {name} |->
        IF n = name
        THEN [type |-> type, ast_node |-> node, is_only_partially_defined |-> partial,
              is_function_that_may_throw |-> may_throw]
        ELSE table[n]]

(* SymbolTable.get_symbol_definition over a chain of scopes; scopes[1] is  *)
(* the root table, the last one the current table.                         *)
RECURSIVE get_symbol_definition(_, _)
get_symbol_definition(scopes, name) ==
    IF scopes = <<>> THEN NoneV
    ELSE LET table == scopes[Len(scopes)] IN
         IF name \in DOMAIN table
         THEN [k |-> "SymbolLookupResult", symbol |-> table[name],
               is_only_partially_defined |-> table[name].is_only_partially_defined,
               ast_node |-> table[name].ast_node,
               is_root |-> Len(scopes) = 1]
         ELSE get_symbol_definition(SubSeq(scopes, 1, Len(scopes) - 1), name)

(* _check_not_already_defined looking at the symbol tables of the scopes   *)
(* only, not at the custom types table nor at the partial function map.    *)
CheckSymbolTablesOnly(scopes, g, name, node) ==
    LET r == get_symbol_definition(scopes, name) IN
    IF r = NoneV THEN NoneV
    ELSE IF r.is_only_partially_defined
         THEN [k |-> "CompilationError", node |-> node,
               msg |-> <<name, " could be already initialized at this point.">>,
               notes |-> <<[node |-> r.ast_node, msg |-> "It might have been initialized here (depending on which branch is taken)."]>>]
         ELSE [k |-> "CompilationError", node |-> node,
               msg |-> <<name, " was already defined in this scope.">>,
               notes |-> <<[node |-> r.ast_node, msg |-> "The previous declaration was here."]>>]

(* _check_not_already_defined looking at the table of the current scope,  *)
(* at the custom types table and at the partial function map, not at the   *)
(* tables of the ancestors of the current scope.                           *)
CheckCurrentScopeOnly(scopes, g, name, node) ==
    LET r1 == get_symbol_definition(<<scopes[Len(scopes)]>>, name)
        r  == IF r1 = NoneV THEN get_symbol_definition(<<g.types>>, name) ELSE r1
        previous == IF r # NoneV THEN r.ast_node
                    ELSE IF name \in DOMAIN g.partial THEN g.partial[name]
                    ELSE NoNode
        partial == IF r # NoneV THEN r.is_only_partially_defined ELSE FALSE
    IN IF previous = NoNode THEN NoneV
       ELSE IF partial
            THEN CompilationError(node, <<name, " could be already initialized at this point.">>,
                     <<[node |-> previous, msg |-> "It might have been initialized here (depending on which branch is taken)."]>>)
            ELSE CompilationError(node, <<name, " was already defined in this scope.">>,
                     <<[node |-> previous, msg |-> "The previous declaration was here."]>>)

(* CompilationContext._check_not_already_defined: the error it raises, or  *)
(* NoneV.  g holds what every context of one compilation shares: the       *)
(* custom types table (types), the partial function map (partial) and the  *)
(* current function name (fn).                                             *)
CheckNotAlreadyDefined(scopes, g, name, node) ==
    LET r1 == get_symbol_definition(scopes, name)
        r  == IF r1 = NoneV THEN get_symbol_definition(<<g.types>>, name) ELSE r1
        previous == IF r # NoneV THEN r.ast_node
                    ELSE IF name \in DOMAIN g.partial THEN g.partial[name]
                    ELSE NoNode
        partial == IF r # NoneV THEN r.is_only_partially_defined ELSE FALSE
    IN IF previous = NoNode THEN NoneV
       ELSE IF partial
            THEN CompilationError(node, <<name, " could be already initialized at this point.">>,
                     <<[node |-> previous, msg |-> "It might have been initialized here (depending on which branch is taken)."]>>)
            ELSE CompilationError(node, <<name, " was already defined in this scope.">>,
                     <<[node |-> previous, msg |-> "The previous declaration was here."]>>)

-----------------------------------------------------------------------------
(* Expressions.  An elaborated expression is [err, type, var, may_throw]:  *)
(* var is the name when the result is an ir3.VarReference ("" otherwise).  *)
ExprOk(type, var, may_throw) == [err |-> NoneV, type |-> type, var |-> var, may_throw |-> may_throw]

ExprErr(err) == [err |-> err, type |-> NoneV, var |-> "", may_throw |-> FALSE]

(* What follows the elaboration of a subexpression, unless it raised.      *)
IfElaborated(result, Body(_)) == IF result.err # NoneV THEN ExprErr(result.err) ELSE Body(result)

(* The ints of Python are unbounded: an int is its sign and its magnitude, *)
(* the magnitude in four digits of 21 bits, the most significant first.    *)
MaxDigit == 2 ^ 21 - 1

PyInt(neg, mag) == [py |-> "int", neg |-> neg, mag |-> mag]

RECURSIVE MagLess(_, _)
MagLess(a, b) ==
    /\ a # <<>>
    /\ \/ Head(a) < Head(b)
       \/ Head(a) = Head(b) /\ MagLess(Tail(a), Tail(b))

(* a < b and a <= b.                                                       *)
IntLess(a, b) ==
    IF a.neg # b.neg THEN a.neg
    ELSE IF a.neg THEN MagLess(b.mag, a.mag) ELSE MagLess(a.mag, b.mag)

IntLessEq(a, b) == a = b \/ IntLess(a, b)

(* -n                                                                      *)
IntNeg(n) == IF n.mag = <<0, 0, 0, 0>> THEN n ELSE [n EXCEPT !.neg = ~@]

(* 2**63 - 1                                                               *)
TwoTo63Minus1 == PyInt(FALSE, <<0, MaxDigit, MaxDigit, MaxDigit>>)

(* 2**63                                                                   *)
TwoTo63 == PyInt(FALSE, <<1, 0, 0, 0>>)

(* number_literal_expression_ast_to_ir3: the error raised, or the value of *)
(* the ir3.IntLiteral.                                                     *)
number_literal_expression_ast_to_ir3(ast_node, loc, positive) ==
    LET Err(msg) == [err |-> CompilationError(loc, <<msg>>, <<>>), value |-> NoneV]
        n == IF positive THEN ast_node.n ELSE IntNeg(ast_node.n)
    IN IF ast_node.n.py = "float" THEN Err("Floating-point values are not supported.")
       ELSE IF ast_node.n.py = "complex" THEN Err("Complex values are not supported.")
       ELSE IF IntLessEq(n, IntNeg(TwoTo63))
       THEN Err("int value out of bounds: values lower than -2^63+1 are not supported.")
       ELSE IF IntLessEq(TwoTo63, n)
       THEN Err("int value out of bounds: values greater than 2^63-1 are not supported.")
       ELSE [err |-> NoneV, value |-> n]

(* The arms of expression_ast_to_ir3 for ast.Num and for the unary minus   *)
(* of an ast.Num (lines 1239-1242).                                        *)
IsMinusNum(ast_node) ==
    ast_node.k = "UnaryOp" /\ ast_node.op = "USub" /\ ast_node.operand.k = "Num"

(* var_reference_ast_to_ir3 without the test on current_function_name.    *)
VarReferenceIgnoringCurrentFunction(ast_node, loc, scopes, g) ==
    LET lookup_result == get_symbol_definition(scopes, ast_node.id) IN
    IF lookup_result # NoneV
    THEN IF lookup_result.is_only_partially_defined
         THEN ExprErr(CompilationError(loc,
                  <<"Reference to a variable that may or may not have been initialized (depending on which branch was taken)">>,
                  <<[node |-> lookup_result.ast_node, msg |-> ast_node.id \o " might have been initialized here"]>>))
         ELSE ExprOk(lookup_result.symbol.type, ast_node.id,
                     lookup_result.symbol.type.k = "Fn" /\ lookup_result.symbol.is_function_that_may_throw)
    ELSE IF ast_node.id \in DOMAIN g.partial
         THEN IF FALSE
              THEN ExprErr(CompilationError(loc,
                       <<"Recursive function references are only allowed if the return type is declared explicitly.">>,
                       <<[node |-> g.partial[ast_node.id], msg |-> ast_node.id \o " was defined here"]>>))
              ELSE ExprErr(CompilationError(loc,
                       <<"Reference to a function whose return type hasn't been determined yet. Please add a return type declaration in ", ast_node.id, " or move its declaration before its use.">>,
                       <<[node |-> g.partial[ast_node.id], msg |-> ast_node.id \o " was defined here"]>>))
         ELSE ExprErr(CompilationError(loc, <<"Reference to undefined variable/function">>, <<>>))

(* var_reference_ast_to_ir3 *)
VarReferenceToIr3(ast_node, loc, scopes, g) ==
    LET lookup_result == get_symbol_definition(scopes, ast_node.id) IN
    IF lookup_result # NoneV
    THEN IF lookup_result.is_only_partially_defined
         THEN ExprErr(CompilationError(loc,
                  <<"Reference to a variable that may or may not have been initialized (depending on which branch was taken)">>,
                  <<[node |-> lookup_result.ast_node, msg |-> ast_node.id \o " might have been initialized here"]>>))
         ELSE ExprOk(lookup_result.symbol.type, ast_node.id,
                     lookup_result.symbol.type.k = "Fn" /\ lookup_result.symbol.is_function_that_may_throw)
    ELSE IF ast_node.id \in DOMAIN g.partial
         THEN IF g.fn = ast_node.id
              THEN ExprErr(CompilationError(loc,
                       <<"Recursive function references are only allowed if the return type is declared explicitly.">>,
                       <<[node |-> g.partial[ast_node.id], msg |-> ast_node.id \o " was defined here"]>>))
              ELSE ExprErr(CompilationError(loc,
                       <<"Reference to a function whose return type hasn't been determined yet. Please add a return type declaration in ", ast_node.id, " or move its declaration before its use.">>,
                       <<[node |-> g.partial[ast_node.id], msg |-> ast_node.id \o " was defined here"]>>))
         ELSE ExprErr(CompilationError(loc, <<"Reference to undefined variable/function">>, <<>>))

(* Expressions elaborated under a check_var_reference callback.  The       *)
(* callback is modelled by the set of the names it rejects: the one of the *)
(* statements (lambda ast_node: None) is {}, and the one a match branch    *)
(* builds for its result rejects what the enclosing callback rejects and   *)
(* the lambda arguments that the patterns of the branch do not use.  An    *)
(* elaborated expression also carries `free`, the names of its free        *)
(* variables.                                                              *)
Ir3Expr(type, var, free) == [err |-> NoneV, type |-> type, var |-> var, may_throw |-> FALSE, free |-> free]

(* An assert statement of the elaborator that fails.                       *)
AssertionError(node) == [k |-> "AssertionError", node |-> node, msg |-> <<>>, notes |-> <<>>]

(* CompilationError(compilation_context, None, ...): _diagnostic_to_string *)
(* reads ast_node.lineno (line 187) of None, which raises AttributeError   *)
(* in place of the CompilationError.                                       *)
AttributeError(node) == [k |-> "AttributeError", node |-> node, msg |-> <<>>, notes |-> <<>>]

(* check_var_reference_in_result_expr, when it raises.                     *)
UsedInResultOnly(id) == <<id, " was used in the result of this match branch but not in any of its patterns">>

(* var_reference_ast_to_ir3 with its call of check_var_reference (line     *)
(* 1824), made after a lookup that found a fully defined symbol.           *)
CheckedVarReference(ast_node, loc, scopes, g, check_var_reference) ==
    IfElaborated(VarReferenceToIr3(ast_node, loc, scopes, g),
    LAMBDA reference :
    IF ast_node.id \in check_var_reference
    THEN ExprErr(CompilationError(loc, UsedInResultOnly(ast_node.id), <<>>))
    ELSE Ir3Expr(reference.type, reference.var, {ast_node.id}))

(* The position of name among the lambda arguments.                        *)
lambda_arg_index_by_name(lambda_args, name) == CHOOSE i \in DOMAIN lambda_args : lambda_args[i] = name

(* The unused lambda argument of lowest index.                             *)
FirstUnusedArgName(lambda_args, unused_lambda_arg_names) ==
    CHOOSE name \in unused_lambda_arg_names :
        \A other \in unused_lambda_arg_names :
            lambda_arg_index_by_name(lambda_args, name) <= lambda_arg_index_by_name(lambda_args, other)

(* max(unused_lambda_arg_names, key=lambda_arg_index_by_name)              *)
UnusedArgName(lambda_args, unused_lambda_arg_names) ==
    CHOOSE name \in unused_lambda_arg_names :
        \A other \in unused_lambda_arg_names :
            lambda_arg_index_by_name(lambda_args, other) <= lambda_arg_index_by_name(lambda_args, name)

(* The error of the lambda arguments left unused by every branch.          *)
UnusedLambdaArgument(name) == <<"The lambda argument ", name, " was not used in any pattern, it should be removed.">>

RECURSIVE expression_ast_to_ir3(_, _, _, _, _, _)

(* The loop over ast_node.func.args of match_expression_ast_to_ir3 from    *)
(* the i-th matched expression on: the first error, if any.                *)
RECURSIVE MatchedExprs(_, _, _, _, _, _, _)
MatchedExprs(args, i, loc, scopes, g, in_match_pattern, check_var_reference) ==
    IF i > Len(args) THEN [err |-> NoneV]
    ELSE IfElaborated(expression_ast_to_ir3(args[i], loc \o <<0, i>>, scopes, g, in_match_pattern, check_var_reference),
         LAMBDA expr :
         IF expr.type # TypeType
         THEN ExprErr(CompilationError(loc \o <<0, i>>,
                  <<"All arguments passed to match must have type Type, but an argument with type ", expr.type.k, " was specified.">>, <<>>))
         ELSE MatchedExprs(args, i + 1, loc, scopes, g, in_match_pattern, check_var_reference))

(* The loop that adds the lambda arguments to the table of the child       *)
(* context (the last of scopes): the error, or the scopes.                 *)
RECURSIVE LambdaArguments(_, _, _, _, _)
LambdaArguments(lambda_args, i, loc, scopes, g) ==
    IF i > Len(lambda_args) THEN [err |-> NoneV, scopes |-> scopes]
    ELSE IfElaborated([err |-> CheckNotAlreadyDefined(scopes, g, lambda_args[i], loc \o <<0, 0, i>>)],
         LAMBDA defined :
         LambdaArguments(lambda_args, i + 1, loc,
             [scopes EXCEPT ![Len(scopes)] = TableAddSymbol(@, lambda_args[i], TypeType, loc \o <<0, 0, i>>, FALSE, FALSE)], g))

(* The loop over the patterns of one branch, elaborated with               *)
(* in_match_pattern=True and the callback of the match expression itself:  *)
(* the error, or the free variables of the patterns (free) and whether     *)
(* every pattern is a bare lambda argument (bare).                         *)
RECURSIVE PatternExprs(_, _, _, _, _, _, _)
PatternExprs(pattern_ast_nodes, j, loc, scopes, g, check_var_reference, lambda_arg_names) ==
    IF j > Len(pattern_ast_nodes) THEN [err |-> NoneV, free |-> {}, bare |-> TRUE]
    ELSE IfElaborated(expression_ast_to_ir3(pattern_ast_nodes[j], loc \o <<j>>, scopes, g, TRUE, check_var_reference),
         LAMBDA pattern_expr :
         IF pattern_expr.type # TypeType
         THEN ExprErr(CompilationError(loc \o <<j>>,
                  <<"Type patterns must have type Type but this pattern has type ", pattern_expr.type.k>>,
                  <<[node |-> <<>>, msg |-> "The corresponding match() was here"]>>))
         ELSE IfElaborated(PatternExprs(pattern_ast_nodes, j + 1, loc, scopes, g, check_var_reference, lambda_arg_names),
              LAMBDA rest :
              [err |-> NoneV, free |-> pattern_expr.free \cup rest.free,
               bare |-> rest.bare /\ pattern_expr.var \in lambda_arg_names]))

(* The callback a branch builds for its result expression.                 *)
check_var_reference_in_result_expr(check_var_reference, lambda_arg_names, lambda_args_used_in_pattern) ==
    check_var_reference \cup (lambda_arg_names \ lambda_args_used_in_pattern)

(* The loop over the branches of the dict from the i-th on.  st is         *)
(* [unused, last_type, main_definition]: unused_lambda_arg_names,          *)
(* last_result_expr_type and whether main_definition is set.               *)
RECURSIVE MatchBranches(_, _, _, _, _, _, _, _)
MatchBranches(ast_node, i, loc, scopes, g, in_match_pattern, check_var_reference, st) ==
    IF i > Len(ast_node.keys) THEN [err |-> NoneV, st |-> st]
    ELSE
    With(IF ast_node.keys[i].k = "Tuple" THEN ast_node.keys[i].elts ELSE <<ast_node.keys[i]>>,
    LAMBDA pattern_ast_nodes :
    IF Len(pattern_ast_nodes) # Len(ast_node.args)
    THEN ExprErr(CompilationError(loc \o <<i, 0>>,
             <<ToString(Len(pattern_ast_nodes)), " type patterns were provided, while ",
               ToString(Len(ast_node.args)), " were expected">>,
             <<[node |-> loc \o <<0>>, msg |-> "The corresponding match() was here"]>>))
    ELSE
    With({ast_node.lambda_args[n] : n \in DOMAIN ast_node.lambda_args},
    LAMBDA lambda_arg_names :
    IfElaborated(PatternExprs(pattern_ast_nodes, 1, loc \o <<i, 0>>, scopes, g, check_var_reference, lambda_arg_names),
    LAMBDA patterns :
    With(patterns.free \cap lambda_arg_names,
    LAMBDA lambda_args_used_in_pattern :
    IfElaborated(expression_ast_to_ir3(ast_node.values[i], loc \o <<i, 1>>, scopes, g, in_match_pattern,
                     check_var_reference_in_result_expr(check_var_reference, lambda_arg_names, lambda_args_used_in_pattern)),
    LAMBDA result_expr :
    IF st.last_type # NoneV /\ result_expr.type # st.last_type
    THEN ExprErr(CompilationError(loc \o <<i, 1>>,
             <<"All branches in a match() must return the same type, but this branch returns a ",
               result_expr.type.k, " while a previous branch in this match expression returns a ",
               st.last_type.k>>,
             <<[node |-> loc \o <<i - 1, 1>>,
                msg |-> "A previous branch returning a " \o st.last_type.k \o " was here."]>>))
    ELSE IF patterns.bare /\ st.main_definition
    THEN ExprErr(CompilationError(loc \o <<i, 0>>, <<"Found multiple specializations that specialize nothing">>,
             <<[node |-> <<>>, msg |-> "A previous specialization that specializes nothing was here"]>>))
    ELSE MatchBranches(ast_node, i + 1, loc, scopes, g, in_match_pattern, check_var_reference,
             [unused |-> st.unused \ lambda_args_used_in_pattern,
              last_type |-> result_expr.type,
              main_definition |-> st.main_definition \/ patterns.bare]))))))

(* match_expression_ast_to_ir3, for match(...)(lambda ...: {...}) calls    *)
(* without keyword arguments whose lambda has plain positional arguments:  *)
(* ast_node.args are the matched expressions, lambda_args the names of the *)
(* lambda arguments, keys and values those of the dict.                    *)
match_expression_ast_to_ir3(ast_node, loc, scopes, g, in_match_pattern, check_var_reference) ==
    IF ast_node.args = <<>>
    THEN ExprErr(CompilationError(loc \o <<0>>, <<"Found match() with no arguments; it must have at least 1 argument.">>, <<>>))
    ELSE
    IfElaborated(MatchedExprs(ast_node.args, 1, loc, scopes, g, in_match_pattern, check_var_reference),
    LAMBDA matched_exprs :
    IfElaborated(LambdaArguments(ast_node.lambda_args, 1, loc, scopes \o <<EmptyTable>>, g),
    LAMBDA lambda_body :
    IF ast_node.keys = <<>>
    THEN ExprErr(CompilationError(loc \o <<1>>,
             <<"An empty mapping dict was passed to match(), but at least 1 mapping is required.">>, <<>>))
    ELSE IF g.fn = "" THEN ExprErr(AssertionError(loc))
    ELSE
    IfElaborated(MatchBranches(ast_node, 1, loc, lambda_body.scopes, g, in_match_pattern, check_var_reference,
                     [unused |-> {ast_node.lambda_args[n] : n \in DOMAIN ast_node.lambda_args},
                      last_type |-> NoneV, main_definition |-> FALSE]),
    LAMBDA branches :
    IF branches.st.unused # {}
    THEN With(UnusedArgName(ast_node.lambda_args, branches.st.unused),
         LAMBDA unused_arg_name :
         ExprErr(CompilationError(loc \o <<0, 0, lambda_arg_index_by_name(ast_node.lambda_args, unused_arg_name)>>,
             UnusedLambdaArgument(unused_arg_name), <<>>)))
    ELSE Ir3Expr(branches.st.last_type, "", {}))))

(* list_comprehension_ast_to_ir3, for [elt for target in iter] with one    *)
(* "for" clause, no "if" clause and a name as target.                      *)
list_comprehension_ast_to_ir3(ast_node, loc, scopes, g, in_match_pattern, check_var_reference) ==
    IF in_match_pattern
    THEN ExprErr(CompilationError(loc, <<"List comprehensions are not allowed in match patterns">>, <<>>))
    ELSE
    IfElaborated(expression_ast_to_ir3(ast_node.iter, loc \o <<1>>, scopes, g, in_match_pattern, check_var_reference),
    LAMBDA list_expr :
    IF list_expr.type.k # "List"
    THEN ExprErr(CompilationError(loc \o <<2>>,
             <<"The RHS of a list comprehension should be a list, but this value has type \"", list_expr.type.k, "\".">>,
             IF list_expr.var # ""
             THEN <<[node |-> get_symbol_definition(scopes, list_expr.var).ast_node, msg |-> list_expr.var \o " was defined here"]>>
             ELSE <<>>))
    ELSE
    IfElaborated([err |-> CheckNotAlreadyDefined(scopes \o <<EmptyTable>>, g, ast_node.target, loc \o <<2>>)],
    LAMBDA defined :
    IfElaborated(expression_ast_to_ir3(ast_node.elt, loc \o <<3>>,
                     scopes \o <<TableAddSymbol(EmptyTable, ast_node.target, list_expr.type.elem_type, loc \o <<2>>, FALSE, FALSE)>>,
                     g, in_match_pattern, check_var_reference),
    LAMBDA result_elem_expr :
    IF result_elem_expr.type.k = "Fn"
    THEN ExprErr(CompilationError(loc,
             <<"Creating lists of functions is not supported. The elements of this list have type: ", result_elem_expr.type.k>>, <<>>))
    ELSE Ir3Expr(ListType(result_elem_expr.type), "", {}))))

(* type_pointer_expr_ast_to_ir3 and _extract_single_type_expr_arg, for     *)
(* Type.pointer(arg) with its one positional argument.                     *)
type_pointer_expr_ast_to_ir3(ast_node, loc, scopes, g, in_match_pattern, check_var_reference) ==
    IfElaborated(expression_ast_to_ir3(ast_node.arg, loc \o <<1>>, scopes, g, in_match_pattern, check_var_reference),
    LAMBDA arg_ir :
    IF arg_ir.type # TypeType
    THEN ExprErr(CompilationError(loc \o <<1>>,
             <<"The argument passed to Type.pointer() should have type Type, but was: ", arg_ir.type.k>>, <<>>))
    ELSE Ir3Expr(TypeType, "", arg_ir.free))

(* expression_ast_to_ir3, for the expression forms found in and around     *)
(* match expressions (a Type('...') literal holds a valid atomic type).    *)
expression_ast_to_ir3(ast_node, loc, scopes, g, in_match_pattern, check_var_reference) ==
    CASE ast_node.k = "TypeLiteral" -> Ir3Expr(TypeType, "", {})
      [] ast_node.k = "TypePointer" -> type_pointer_expr_ast_to_ir3(ast_node, loc, scopes, g, in_match_pattern, check_var_reference)
      [] ast_node.k = "Match" -> match_expression_ast_to_ir3(ast_node, loc, scopes, g, in_match_pattern, check_var_reference)
      [] ast_node.k = "Name" -> CheckedVarReference(ast_node, loc, scopes, g, check_var_reference)
      [] ast_node.k = "Num" ->
             IfElaborated(number_literal_expression_ast_to_ir3(ast_node, loc, TRUE),
                          LAMBDA n : Ir3Expr(IntType, "", {}))
      [] IsMinusNum(ast_node) ->
             IfElaborated(number_literal_expression_ast_to_ir3(ast_node.operand, loc \o <<1>>, FALSE),
                          LAMBDA n : Ir3Expr(IntType, "", {}))
      [] ast_node.k = "ListComp" -> list_comprehension_ast_to_ir3(ast_node, loc, scopes, g, in_match_pattern, check_var_reference)
      [] OTHER -> ExprErr(CompilationError(loc, <<"This kind of expression is not supported.">>, <<>>))

RECURSIVE ExprToIr3(_, _, _, _)
RECURSIVE ArgsToIr3(_, _, _, _, _)
(* The loop over ast_node.args of function_call_ast_to_ir3: the types of   *)
(* the arguments from the i-th on, or the first error.                     *)
ArgsToIr3(args, i, loc, scopes, g) ==
    IF i > Len(args) THEN [err |-> NoneV, types |-> <<>>]
    ELSE LET a == ExprToIr3(args[i], loc \o <<i>>, scopes, g) IN
         IF a.err # NoneV THEN [err |-> a.err, types |-> <<>>]
         ELSE LET rest == ArgsToIr3(args, i + 1, loc, scopes, g) IN
              IF rest.err # NoneV THEN rest
              ELSE [err |-> NoneV, types |-> <<a.type>> \o rest.types]

(* function_call_ast_to_ir3, for calls without keyword arguments (the      *)
(* notes that point at the signature are left out)                        *)
FunctionCallToIr3(ast_node, loc, scopes, g) ==
    LET fun_expr == ExprToIr3(ast_node.func, loc \o <<0>>, scopes, g) IN
    IF fun_expr.err # NoneV THEN fun_expr
    ELSE IF fun_expr.type.k # "Fn"
    THEN ExprErr(CompilationError(loc, <<"Attempting to call an object that is not a function. It has type: ", fun_expr.type.k>>, <<>>))
    ELSE LET args == ArgsToIr3(ast_node.args, 1, loc, scopes, g) IN
         IF args.err # NoneV THEN ExprErr(args.err)
         ELSE IF Len(args.types) # Len(fun_expr.type.argtypes)
         THEN ExprErr(CompilationError(loc,
                  <<"Argument number mismatch in function call",
                    IF ast_node.func.k = "Name" THEN " to " \o ast_node.func.id ELSE "",
                    ": got ", ToString(Len(args.types)), " arguments, expected ",
                    ToString(Len(fun_expr.type.argtypes))>>, <<>>))
         ELSE IF \E i \in 1..Len(args.types) : args.types[i] # fun_expr.type.argtypes[i]
         THEN LET i == CHOOSE j \in 1..Len(args.types) :
                          /\ args.types[j] # fun_expr.type.argtypes[j]
                          /\ \A h \in 1..(j - 1) : args.types[h] = fun_expr.type.argtypes[h]
              IN ExprErr(CompilationError(loc \o <<i>>,
                     <<"Type mismatch for argument ", ToString(i - 1), ": expected type ",
                       fun_expr.type.argtypes[i].k, " but was: ", args.types[i].k>>, <<>>))
         ELSE ExprOk(fun_expr.type.returns, "", fun_expr.var = "" \/ fun_expr.may_throw)

(* _is_structural_equality_check_supported_for_type without the case of   *)
(* ir3.SetType: a set is taken for a list.                                 *)
RECURSIVE structural_check_taking_sets_for_lists(_)
structural_check_taking_sets_for_lists(type) ==
    CASE type.k \in {"Bool", "Int", "Type"} -> TRUE
      [] type.k = "Fn" -> FALSE
      [] type.k \in {"List", "Set"} -> structural_check_taking_sets_for_lists(type.elem_type)
      [] type.k = "Custom" ->
             \A i \in DOMAIN type.arg_types :
                 structural_check_taking_sets_for_lists(type.arg_types[i].type)

(* _is_structural_equality_check_supported_for_type                        *)
RECURSIVE is_structural_equality_check_supported_for_type(_)
is_structural_equality_check_supported_for_type(type) ==
    CASE type.k = "Bool" -> TRUE
      [] type.k = "Int" -> TRUE
      [] type.k = "Type" -> TRUE
      [] type.k = "Fn" -> FALSE
      [] type.k = "List" -> is_structural_equality_check_supported_for_type(type.elem_type)
      [] type.k = "Set" -> FALSE
      [] type.k = "Custom" ->
             \A i \in DOMAIN type.arg_types :
                 is_structural_equality_check_supported_for_type(type.arg_types[i].type)

(* _is_equality_check_supported_for_type                                   *)
is_equality_check_supported_for_type(type) ==
    IF type.k = "Set"
    THEN is_structural_equality_check_supported_for_type(type.elem_type)
    ELSE is_structural_equality_check_supported_for_type(type)

(* eq_ast_to_ir3 and not_eq_ast_to_ir3: what follows the elaboration of    *)
(* the two operands; op is "==" or "!=".                                   *)
EqualityComparison(lhs, rhs, op, loc) ==
    IF lhs.type # rhs.type
    THEN ExprErr(CompilationError(loc \o <<0>>,
             <<"Type mismatch in ", op, ": ", lhs.type.k, " vs ", rhs.type.k>>, <<>>))
    ELSE IF ~is_equality_check_supported_for_type(lhs.type)
    THEN ExprErr(CompilationError(loc \o <<0>>,
             <<"Type not supported in equality comparison: ", lhs.type.k>>, <<>>))
    ELSE ExprOk(BoolType, "", FALSE)

(* compare_ast_to_ir3 outside a match pattern, for the operators == and != *)
(* (the order comparisons are no expression of the model).                 *)
compare_ast_to_ir3(ast_node, loc, scopes, g) ==
    IF ast_node.op \notin {"Eq", "NotEq"}
    THEN ExprErr(CompilationError(loc, <<"Comparison not supported.">>, <<>>))
    ELSE IfElaborated(ExprToIr3(ast_node.left, loc \o <<0>>, scopes, g), LAMBDA lhs :
         IfElaborated(ExprToIr3(ast_node.right, loc \o <<1>>, scopes, g), LAMBDA rhs :
             EqualityComparison(lhs, rhs, IF ast_node.op = "Eq" THEN "==" ELSE "!=", loc)))

(* expression_ast_to_ir3, for the expression forms of the model *)
ExprToIr3(ast_node, loc, scopes, g) ==
    CASE ast_node.k = "NameConstant" -> ExprOk(BoolType, "", FALSE)
      [] ast_node.k = "Call" -> FunctionCallToIr3(ast_node, loc, scopes, g)
      [] ast_node.k = "Compare" -> compare_ast_to_ir3(ast_node, loc, scopes, g)
      [] ast_node.k = "Name" -> VarReferenceToIr3(ast_node, loc, scopes, g)
      [] ast_node.k = "Num" ->
             IfElaborated(number_literal_expression_ast_to_ir3(ast_node, loc, TRUE),
                          LAMBDA n : ExprOk(IntType, "", FALSE))
      [] IsMinusNum(ast_node) ->
             IfElaborated(number_literal_expression_ast_to_ir3(ast_node.operand, loc \o <<1>>, FALSE),
                          LAMBDA n : ExprOk(IntType, "", FALSE))
      [] ast_node.k \in {"Match", "ListComp", "TypeLiteral", "TypePointer"} ->
             expression_ast_to_ir3(ast_node, loc, scopes, g, FALSE, {})
      [] OTHER -> ExprErr(CompilationError(loc, <<"This kind of expression is not supported.">>, <<>>))

(* type_declaration_ast_to_ir3_expression_type, for annotations that are   *)
(* names or List[...] and Set[...] subscripts: [err, type].                *)
RECURSIVE TypeDeclarationToIr3(_, _, _)
TypeDeclarationToIr3(ast_node, loc, g) ==
    IF ast_node.k = "Name"
    THEN CASE ast_node.id = "bool" -> [err |-> NoneV, type |-> BoolType]
           [] ast_node.id = "int" -> [err |-> NoneV, type |-> IntType]
           [] ast_node.id = "Type" -> [err |-> NoneV, type |-> TypeType]
           [] OTHER ->
                IF ast_node.id \in DOMAIN g.types
                THEN [err |-> NoneV, type |-> g.types[ast_node.id].type]
                ELSE [err |-> CompilationError(loc, <<"Unsupported (or undefined) type: ", ast_node.id>>, <<>>),
                      type |-> NoneV]
    ELSE IF ast_node.k = "Subscript" /\ ast_node.value \in {"List", "Set"}
    THEN LET elem == TypeDeclarationToIr3(ast_node.slice, loc, g) IN
         IF elem.err # NoneV THEN elem
         ELSE [err |-> NoneV,
               type |-> IF ast_node.value = "List" THEN ListType(elem.type) ELSE SetType(elem.type)]
    ELSE IF ast_node = NoneV THEN [err |-> AttributeError(loc), type |-> NoneV]
    ELSE [err |-> CompilationError(loc, <<"Unsupported type declaration.">>, <<>>), type |-> NoneV]

-----------------------------------------------------------------------------
(* Statements.  Below a statement at loc: <<0>> is its expression (value,  *)
(* test or exc), <<1>> its body, <<2>> its orelse or handler body, <<3>>   *)
(* its except handler, <<4>> its assignment target, <<5>> the cause of a   *)
(* raise.                                                                  *)
(*                                                                         *)
(* The state of the loop of statements_ast_to_ir3 is a record: errs (the   *)
(* errors the step can raise: empty when it raises none, several when      *)
(* which one is raised depends on the iteration order of a Python set),    *)
(* scope (symbols_by_name of the context's own table), nstmts and          *)
(* last_returns (len(statements), statements[-1].get_return_type()         *)
(* .always_returns), first_return_stmt and previous_return_stmt.           *)
LoopState(scope, previous_return_stmt) ==
    [errs |-> {}, scope |-> scope, nstmts |-> 0, last_returns |-> FALSE,
     first_return_stmt |-> NoneV, previous_return_stmt |-> previous_return_stmt]

Raise(ls, err) == [ls EXCEPT !.errs = {err}]

(* ir3.Stmt.get_return_type().always_returns of an elaborated statement:   *)
(* a return and a raise always return, an if or a try/except does when     *)
(* both of its branches do, an assignment and an assert never do.          *)
AlwaysReturns(kind, branch1_returns, branch2_returns) ==
    CASE kind \in {"Return", "Raise"} -> TRUE
      [] kind \in {"If", "Try"} -> branch1_returns /\ branch2_returns
      [] OTHER -> FALSE

(* statements.append(stmt) *)
Append1(ls, always_returns) ==
    [ls EXCEPT !.nstmts = @ + 1, !.last_returns = always_returns]

(* CompilationContext.add_symbol on the context whose table is ls.scope *)
AddSymbol(ls, outer, g, name, type, node, partial, may_throw) ==
    LET err == CheckNotAlreadyDefined(outer \o <<ls.scope>>, g, name, node) IN
    IF err # NoneV THEN Raise(ls, err)
    ELSE [ls EXCEPT !.scope = TableAddSymbol(ls.scope, name, type, node, partial, may_throw)]

(* BranchSymbol without the test on always_returns.                        *)
BranchSymbolIgnoringReturns(table, always_returns, symbol_name) ==
    IF symbol_name \notin DOMAIN table THEN NoneV ELSE table[symbol_name]

(* The symbol of branch `table` that _join_definitions_in_branches reads   *)
(* for symbol_name (lines 484-496).                                        *)
BranchSymbol(table, always_returns, symbol_name) ==
    IF always_returns \/ symbol_name \notin DOMAIN table THEN NoneV ELSE table[symbol_name]

(* JoinedSymbol with the else of lines 512-513 and 520-521 dropped: a name  *)
(* defined in one branch only keeps the flag it has in that branch.        *)
JoinedSymbolKeepingFlag(s1, s2, branch1_returns, branch2_returns) ==
    IF s1 # NoneV /\ s2 # NoneV
    THEN [s1 EXCEPT !.is_only_partially_defined =
              s1.is_only_partially_defined \/ s2.is_only_partially_defined,
              !.is_function_that_may_throw = (s1.type.k = "Fn")]
    ELSE IF s1 # NoneV
    THEN [s1 EXCEPT !.is_function_that_may_throw = (s1.type.k = "Fn")]
    ELSE [s2 EXCEPT !.is_function_that_may_throw = (s2.type.k = "Fn")]

(* JoinedSymbol without the test on always_returns of lines 510 and 518: a *)
(* name defined in one branch only is always partially defined.            *)
JoinedSymbolAlwaysPartial(s1, s2, branch1_returns, branch2_returns) ==
    IF s1 # NoneV /\ s2 # NoneV
    THEN [s1 EXCEPT !.is_only_partially_defined =
              s1.is_only_partially_defined \/ s2.is_only_partially_defined,
              !.is_function_that_may_throw = (s1.type.k = "Fn")]
    ELSE IF s1 # NoneV
    THEN [s1 EXCEPT !.is_only_partially_defined = TRUE,
              !.is_function_that_may_throw = (s1.type.k = "Fn")]
    ELSE [s2 EXCEPT !.is_only_partially_defined = TRUE,
              !.is_function_that_may_throw = (s2.type.k = "Fn")]

(* The symbol _join_definitions_in_branches adds to the parent context for *)
(* symbol_name (lines 498-527), when the types do not conflict.            *)
JoinedSymbol(s1, s2, branch1_returns, branch2_returns) ==
    IF s1 # NoneV /\ s2 # NoneV
    THEN [s1 EXCEPT !.is_only_partially_defined =
              s1.is_only_partially_defined \/ s2.is_only_partially_defined,
              !.is_function_that_may_throw = (s1.type.k = "Fn")]
    ELSE IF s1 # NoneV
    THEN [s1 EXCEPT !.is_only_partially_defined =
              IF branch2_returns THEN s1.is_only_partially_defined ELSE TRUE,
              !.is_function_that_may_throw = (s1.type.k = "Fn")]
    ELSE [s2 EXCEPT !.is_only_partially_defined =
              IF branch1_returns THEN s2.is_only_partially_defined ELSE TRUE,
              !.is_function_that_may_throw = (s2.type.k = "Fn")]

(* The names of the first branch only: what the second branch, the        *)
(* handler of a try, defines stays in the second branch.                   *)
JoinNamesOfFirstBranch(table1, branch1_returns, table2, branch2_returns) ==
    IF ~branch1_returns THEN DOMAIN table1 ELSE {}

(* The names _join_definitions_in_branches iterates over (lines 477-481). *)
JoinSymbolNames(table1, branch1_returns, table2, branch2_returns) ==
    (IF ~branch1_returns THEN DOMAIN table1 ELSE {})
        \cup (IF ~branch2_returns THEN DOMAIN table2 ELSE {})

(* Whether the loop body of _join_definitions_in_branches raises the       *)
(* conflicting-types error for the two symbols (lines 498-499).            *)
JoinConflict(s1, s2) == s1 # NoneV /\ s2 # NoneV /\ s1.type # s2.type

(* _join_definitions_in_branches: ls is the loop state of the parent       *)
(* context.  symbol_names is a Python set, so when several names fail, the *)
(* one met first, and with it the error raised, is any of them.            *)
JoinDefinitionsInBranches(ls, outer, g, table1, branch1_returns, table2, branch2_returns) ==
    LET names == JoinSymbolNames(table1, branch1_returns, table2, branch2_returns)
        S1(n) == BranchSymbol(table1, branch1_returns, n)
        S2(n) == BranchSymbol(table2, branch2_returns, n)
        Joined(n) == JoinedSymbol(S1(n), S2(n), branch1_returns, branch2_returns)
        ErrOf(n) ==
            IF JoinConflict(S1(n), S2(n))
            THEN CompilationError(S2(n).ast_node,
                     <<"The variable ", n, " is defined with type ", S2(n).type.k,
                       " here, but it was previously defined with type ", S1(n).type.k,
                       " in another branch.">>,
                     <<[node |-> S1(n).ast_node,
                        msg |-> "A previous definition with type " \o S1(n).type.k \o " was here."]>>)
            ELSE CheckNotAlreadyDefined(outer \o <<ls.scope>>, g, n, Joined(n).ast_node)
        errs == {ErrOf(n) : n \in names} \ {NoneV}
    IN IF errs # {} THEN [ls EXCEPT !.errs = errs]
       ELSE [ls EXCEPT !.scope = [n \in DOMAIN ls.scope \cup names |->
                                     IF n \in names THEN Joined(n) ELSE ls.scope[n]]]

(* `if not previous_return_stmt [and first_return_stmt]: previous = first` *)
OrElse(previous_return_stmt, first_return_stmt) ==
    IF previous_return_stmt = NoneV THEN first_return_stmt ELSE previous_return_stmt

(* assert_ast_to_ir3 (the assertion message is built after the type check  *)
(* and raises nothing)                                                     *)
AssertToIr3(stmt, loc, ls, outer, g) ==
    LET expr == ExprToIr3(stmt.test, loc \o <<0>>, outer \o <<ls.scope>>, g) IN
    IF expr.err # NoneV THEN Raise(ls, expr.err)
    ELSE IF expr.type # BoolType
    THEN Raise(ls, CompilationError(loc \o <<0>>,
             <<"The value passed to assert must have type bool, but got a value with type ", expr.type.k, ".">>, <<>>))
    ELSE Append1(ls, AlwaysReturns("Assert", FALSE, FALSE))

(* Strings whose characters matter are sequences: an element is one of the *)
(* characters below or a text that holds none of them.                     *)
Backslash == "\\"

DoubleQuote == "\""

Newline == "\n"

Filename == "test.py"

(* str.replace(old, new), old one character.                               *)
RECURSIVE replace(_, _, _)
replace(text, old, new) ==
    IF text = <<>> THEN <<>>
    ELSE (IF Head(text) = old THEN new ELSE <<Head(text)>>) \o replace(Tail(text), old, new)

(* message.replace('\\', '\\\\').replace('"', '\"').replace('\n', '\\n'): in  *)
(* Python the literal '\"' is the one character ".                         *)
EscapedMessage(message) ==
    replace(replace(replace(message, Backslash, <<Backslash, Backslash>>),
                    DoubleQuote, <<DoubleQuote>>),
            Newline, <<Backslash, "n">>)

(* The message of the ir3.Assert built by assert_ast_to_ir3 (lines         *)
(* 770-782) for the assertion on line first_line_number.                   *)
AssertMessage(ast_node, first_line_number) ==
    EscapedMessage(<<"TMPPy assertion failed: ">>
                   \o (IF ast_node.msg # NoneV THEN ast_node.msg.s ELSE <<>>)
                   \o <<Newline, Filename, ":", ToString(first_line_number), ": ">>
                   \o ast_node.line)

(* assignment_ast_to_ir3: an ast.AugAssign, an ast.AnnAssign, or an        *)
(* ast.Assign with the single target `name` (stmt.target)                  *)
AssignmentToIr3(stmt, loc, ls, outer, g) ==
    IF stmt.k = "AugAssign"
    THEN Raise(ls, CompilationError(loc, <<"Augmented assignments are not supported.">>, <<>>))
    ELSE IF stmt.k = "AnnAssign"
    THEN Raise(ls, CompilationError(loc, <<"Assignments with type annotations are not supported.">>, <<>>))
    ELSE
    LET expr == ExprToIr3(stmt.value, loc \o <<0>>, outer \o <<ls.scope>>, g) IN
    IF expr.err # NoneV THEN Raise(ls, expr.err)
    ELSE LET ls2 == AddSymbol(ls, outer, g, stmt.target, expr.type, loc \o <<4>>, FALSE,
                              expr.type.k = "Fn")
         IN IF ls2.errs # {} THEN ls2 ELSE Append1(ls2, AlwaysReturns("Assign", FALSE, FALSE))

(* return_stmt_ast_to_ir3 and lines 638-652 of statements_ast_to_ir3 *)
(* A return statement that is compared with no earlier return.            *)
ReturnComparedWithNoReturn(stmt, loc, ls, outer, g) ==
    With(ExprToIr3(stmt.value, loc \o <<0>>, outer \o <<ls.scope>>, g), LAMBDA expr :
    IF expr.err # NoneV THEN Raise(ls, expr.err)
    ELSE With(OrElse(ls.first_return_stmt, [type |-> expr.type, node |-> loc]), LAMBDA first :
         Append1([ls EXCEPT !.first_return_stmt = first,
                            !.previous_return_stmt = OrElse(@, first)],
                 AlwaysReturns("Return", FALSE, FALSE))))

ReturnToIr3(stmt, loc, ls, outer, g) ==
    IF stmt.value = NoneV
    THEN Raise(ls, CompilationError(loc, <<"Return statements with no returned expression are not supported.">>, <<>>))
    ELSE
    LET expr == ExprToIr3(stmt.value, loc \o <<0>>, outer \o <<ls.scope>>, g) IN
    IF expr.err # NoneV THEN Raise(ls, expr.err)
    ELSE IF ls.previous_return_stmt # NoneV /\ expr.type # ls.previous_return_stmt.type
    THEN Raise(ls, CompilationError(loc,
             <<"Found return statement with different return type: ", expr.type.k, " instead of ",
               ls.previous_return_stmt.type.k, ".">>,
             <<[node |-> ls.previous_return_stmt.node,
                msg |-> "A previous return statement returning a " \o ls.previous_return_stmt.type.k \o " was here."]>>))
    ELSE LET first == OrElse(ls.first_return_stmt, [type |-> expr.type, node |-> loc])
         IN Append1([ls EXCEPT !.first_return_stmt = first,
                               !.previous_return_stmt = OrElse(@, first)],
                    AlwaysReturns("Return", FALSE, FALSE))

(* raise_stmt_ast_to_ir3 *)
RaiseToIr3(stmt, loc, ls, outer, g) ==
    IF stmt.cause # NoneV
    THEN Raise(ls, CompilationError(loc \o <<5>>,
             <<"\"raise ... from ...\" is not supported. Use a plain \"raise ...\" instead.">>, <<>>))
    ELSE
    LET expr == ExprToIr3(stmt.exc, loc \o <<0>>, outer \o <<ls.scope>>, g) IN
    IF expr.err # NoneV THEN Raise(ls, expr.err)
    ELSE IF ~(expr.type.k = "Custom" /\ expr.type.is_exception_class)
    THEN Raise(ls, CompilationError(loc \o <<0>>,
             <<"Can't raise an exception of type \"", expr.type.k,
               "\", because it's not a subclass of Exception.">>,
             IF expr.type.k = "Custom"
             THEN <<[node |-> g.types[expr.type.name].ast_node,
                     msg |-> "The type " \o expr.type.name \o " was defined here."]>>
             ELSE <<>>))
    ELSE Append1(ls, AlwaysReturns("Raise", FALSE, FALSE))

(* The end of if_stmt_ast_to_ir3 and of try_stmt_ast_to_ir3, with the      *)
(* bookkeeping of statements_ast_to_ir3 on their result (lines 658-662 and *)
(* 671-675): the definitions of the two branches are joined, the           *)
(* statement is appended, and the previous_return_stmt the statement       *)
(* returns becomes first_return_stmt where there was none.                 *)
JoinBranches(ls, outer, g, table1, branch1_returns, table2, branch2_returns, previous_return_stmt, kind) ==
    With(JoinDefinitionsInBranches(ls, outer, g, table1, branch1_returns, table2, branch2_returns),
         LAMBDA joined :
    IF joined.errs # {} THEN joined
    ELSE With(OrElse(ls.first_return_stmt, previous_return_stmt), LAMBDA first :
         Append1([joined EXCEPT !.first_return_stmt = first,
                                !.previous_return_stmt = OrElse(@, first)],
                 AlwaysReturns(kind, branch1_returns, branch2_returns))))

RECURSIVE StmtToIr3(_, _, _, _, _, _, _)
RECURSIVE StatementsLoop(_, _, _, _, _, _, _, _)

(* An iteration of the loop without the test of lines 629-630.             *)
LoopStepReachingEveryStatement(statement_node, loc, ls, outer, g, check_stmt_always_returns, toplevel) ==
    StmtToIr3(statement_node, loc, ls, outer, g, check_stmt_always_returns, toplevel)

(* One iteration of the loop of statements_ast_to_ir3 (lines 628-677). *)
LoopStep(statement_node, loc, ls, outer, g, check_stmt_always_returns, toplevel) ==
    IF ls.nstmts > 0 /\ ls.last_returns
    THEN Raise(ls, CompilationError(loc, <<"Unreachable statement.">>, <<>>))
    ELSE StmtToIr3(statement_node, loc, ls, outer, g, check_stmt_always_returns, toplevel)

(* The end of statements_ast_to_ir3 (lines 679-683). *)
StatementsEnd(ls, last_loc, check_block_always_returns) ==
    IF check_block_always_returns /\ ~ls.last_returns
    THEN Raise(ls, CompilationError(last_loc, <<"Missing return statement.">>, <<>>))
    ELSE ls

(* statements_ast_to_ir3(ast_nodes, context, ...) in a context whose own   *)
(* table starts as `scope` and whose ancestors are `outer`.                *)
StatementsToIr3(ast_nodes, loc, scope, outer, g, previous_return_stmt, check_block_always_returns, stmts_are_toplevel_in_function) ==
    StatementsLoop(ast_nodes, 1, loc, LoopState(scope, previous_return_stmt), outer, g,
                   check_block_always_returns, stmts_are_toplevel_in_function)

StatementsLoop(ast_nodes, i, loc, ls, outer, g, check, toplevel) ==
    IF i > Len(ast_nodes) THEN StatementsEnd(ls, loc \o <<Len(ast_nodes)>>, check)
    ELSE With(LoopStep(ast_nodes[i], loc \o <<i>>, ls, outer, g,
                       check /\ i = Len(ast_nodes), toplevel),
              LAMBDA ls2 :
                  IF ls2.errs # {} THEN ls2
                  ELSE StatementsLoop(ast_nodes, i + 1, loc, ls2, outer, g, check, toplevel))

(* if_stmt_ast_to_ir3 and lines 653-662 of statements_ast_to_ir3 *)
IfStmtToIr3(stmt, loc, ls, outer, g, check_always_returns) ==
    With(ExprToIr3(stmt.test, loc \o <<0>>, outer \o <<ls.scope>>, g), LAMBDA cond_expr :
    IF cond_expr.err # NoneV THEN Raise(ls, cond_expr.err)
    ELSE IF cond_expr.type # BoolType
    THEN Raise(ls, CompilationError(loc,
             <<"The condition in an if statement must have type bool, but was: ", cond_expr.type.k>>, <<>>))
    ELSE
    With(StatementsToIr3(stmt.body, loc \o <<1>>, EmptyTable, outer \o <<ls.scope>>, g,
                         ls.previous_return_stmt, check_always_returns, FALSE), LAMBDA if_branch :
    IF if_branch.errs # {} THEN [ls EXCEPT !.errs = if_branch.errs]
    ELSE
    With(OrElse(ls.previous_return_stmt, if_branch.first_return_stmt), LAMBDA previous1 :
    IF stmt.orelse # <<>>
    THEN With(StatementsToIr3(stmt.orelse, loc \o <<2>>, EmptyTable, outer \o <<ls.scope>>, g,
                              previous1, check_always_returns, FALSE), LAMBDA else_branch :
         IF else_branch.errs # {} THEN [ls EXCEPT !.errs = else_branch.errs]
         ELSE JoinBranches(ls, outer, g, if_branch.scope, if_branch.last_returns,
                           else_branch.scope, else_branch.last_returns,
                           OrElse(previous1, else_branch.first_return_stmt), "If"))
    ELSE IF check_always_returns
    THEN Raise(ls, CompilationError(loc,
             <<"Missing return statement. You should add an else branch that returns, or a return after the if.">>, <<>>))
    ELSE JoinBranches(ls, outer, g, if_branch.scope, if_branch.last_returns,
                      EmptyTable, FALSE, previous1, "If"))))

(* A try statement that is refused nowhere.                                *)
TryAllowedAnywhere(is_toplevel_in_function) == FALSE

(* `if not is_toplevel_in_function` (line 551).                            *)
NotToplevelInFunction(is_toplevel_in_function) == ~is_toplevel_in_function

(* try_stmt_ast_to_ir3 and lines 665-675 of statements_ast_to_ir3 *)
TryStmtToIr3(stmt, loc, ls, outer, g, check_always_returns, is_toplevel_in_function) ==
    IF NotToplevelInFunction(is_toplevel_in_function)
    THEN Raise(ls, CompilationError(loc,
             <<"try-except blocks are only supported at top-level in functions (not e.g. inside if-else statements).">>, <<>>))
    ELSE
    With(StatementsToIr3(stmt.body, loc \o <<1>>, EmptyTable, outer \o <<ls.scope>>, g,
                         ls.previous_return_stmt, check_always_returns, FALSE), LAMBDA body :
    IF body.errs # {} THEN [ls EXCEPT !.errs = body.errs]
    ELSE IF stmt.handlers = <<>>
    THEN Raise(ls, CompilationError(loc, <<"\"try\" blocks must have an \"except\" clause.">>, <<>>))
    ELSE IF Len(stmt.handlers) > 1
    THEN Raise(ls, CompilationError(loc \o <<3, 2>>,
             <<"\"try\" blocks with multiple \"except\" clauses are not currently supported.">>, <<>>))
    ELSE IF ~(stmt.handlers[1].type.k = "Name" /\ stmt.handlers[1].name # "")
    THEN Raise(ls, CompilationError(loc \o <<3>>,
             <<"\"except\" clauses must be of the form: except SomeType as some_var">>, <<>>))
    ELSE IF stmt.handlers[1].type.id = "Exception"
    THEN Raise(ls, CompilationError(loc \o <<3, 0>>,
             <<"Catching all exceptions is not supported, you must catch a specific exception type.">>, <<>>))
    ELSE
    With(TypeDeclarationToIr3(stmt.handlers[1].type, loc \o <<3, 0>>, g), LAMBDA caught_exception_type :
    IF caught_exception_type.err # NoneV THEN Raise(ls, caught_exception_type.err)
    ELSE IF stmt.orelse # <<>>
    THEN Raise(ls, CompilationError(loc \o <<6>>,
             <<"\"else\" clauses are not supported in try-except.">>, <<>>))
    ELSE IF stmt.finalbody # <<>>
    THEN Raise(ls, CompilationError(loc \o <<7>>, <<"\"finally\" clauses are not supported.">>, <<>>))
    ELSE
    With(OrElse(ls.previous_return_stmt, body.first_return_stmt), LAMBDA previous1 :
    With(AddSymbol(LoopState(EmptyTable, previous1), outer \o <<ls.scope>>, g,
                   stmt.handlers[1].name, caught_exception_type.type, loc \o <<3>>, FALSE, FALSE),
         LAMBDA except_init :
    IF except_init.errs # {} THEN [ls EXCEPT !.errs = except_init.errs]
    ELSE
    With(StatementsLoop(stmt.handlers[1].body, 1, loc \o <<2>>, except_init, outer \o <<ls.scope>>, g,
                        check_always_returns, FALSE), LAMBDA except_body :
    IF except_body.errs # {} THEN [ls EXCEPT !.errs = except_body.errs]
    ELSE JoinBranches(ls, outer, g, body.scope, body.last_returns,
                      except_body.scope, except_body.last_returns,
                      OrElse(previous1, except_body.first_return_stmt), "Try"))))))

(* The dispatch on the statement's class in statements_ast_to_ir3 (lines   *)
(* 634-677).                                                               *)
StmtToIr3(stmt, loc, ls, outer, g, check_stmt_always_returns, toplevel) ==
    CASE stmt.k = "Assert" -> AssertToIr3(stmt, loc, ls, outer, g)
      [] stmt.k \in {"Assign", "AnnAssign", "AugAssign"} -> AssignmentToIr3(stmt, loc, ls, outer, g)
      [] stmt.k = "Return" -> ReturnToIr3(stmt, loc, ls, outer, g)
      [] stmt.k = "If" -> IfStmtToIr3(stmt, loc, ls, outer, g, check_stmt_always_returns)
      [] stmt.k = "Raise" -> RaiseToIr3(stmt, loc, ls, outer, g)
      [] stmt.k = "Try" -> TryStmtToIr3(stmt, loc, ls, outer, g, check_stmt_always_returns, toplevel)
      [] OTHER -> Raise(ls, CompilationError(loc, <<"Unsupported statement.">>, <<>>))

-----------------------------------------------------------------------------
(* Top-level items.  A FunctionDef is [k, name, args, returns] with args a *)
(* sequence of [arg, annotation]; its body is read by the 2nd pass only.   *)
(* A ClassDef is [k, name, bases, body]: bases is a sequence of base class *)
(* names, body the sequence of the statements of the class body, where an  *)
(* __init__ method is [k |-> "FunctionDef", name |-> "__init__", args,     *)
(* body] and a statement of __init__ of the form self.attr = value is      *)
(* [k |-> "SelfAssign", attr, value].                                      *)

(* The loop over ast_node.args.args of function_def_ast_to_symbol_info and *)
(* of function_def_ast_to_ir3, from the i-th argument on: [err, scope,     *)
(* types].                                                                 *)
RECURSIVE FunctionArgs(_, _, _, _, _, _)
FunctionArgs(args, i, loc, scope, outer, g) ==
    IF i > Len(args) THEN [err |-> NoneV, scope |-> scope, types |-> <<>>]
    ELSE LET arg == args[i]
             arg_type == TypeDeclarationToIr3(arg.annotation, loc \o <<0, i, 0>>, g)
             defined == CheckNotAlreadyDefined(outer \o <<scope>>, g, arg.arg, loc \o <<0, i>>)
         IN IF arg.annotation = NoneV
            THEN [err |-> CompilationError(loc \o <<0, i>>,
                              <<"All function arguments must have a type annotation.">>, <<>>),
                  scope |-> scope, types |-> <<>>]
            ELSE IF arg_type.err # NoneV THEN [err |-> arg_type.err, scope |-> scope, types |-> <<>>]
            ELSE IF defined # NoneV THEN [err |-> defined, scope |-> scope, types |-> <<>>]
            ELSE LET rest == FunctionArgs(args, i + 1, loc,
                                 TableAddSymbol(scope, arg.arg, arg_type.type, loc \o <<0, i>>,
                                                FALSE, arg_type.type.k = "Fn"),
                                 outer, g)
                 IN [rest EXCEPT !.types = <<arg_type.type>> \o @]

(* function_def_ast_to_symbol_info, for definitions with plain positional  *)
(* arguments and no decorators: [err, name, arg_types, return_type].       *)
FunctionDefToSymbolInfo(ast_node, loc, root, g) ==
    LET args == FunctionArgs(ast_node.args, 1, loc, EmptyTable, <<root>>,
                             [g EXCEPT !.fn = ast_node.name])
        return_type == TypeDeclarationToIr3(ast_node.returns, loc \o <<8>>, g)
        Err(e) == [err |-> e, name |-> ast_node.name, arg_types |-> <<>>, return_type |-> NoneV]
    IN IF args.err # NoneV THEN Err(args.err)
       ELSE IF args.types = <<>>
       THEN Err(CompilationError(loc, <<"Functions with no arguments are not supported.">>, <<>>))
       ELSE IF ast_node.returns = NoneV
       THEN [err |-> NoneV, name |-> ast_node.name, arg_types |-> args.types, return_type |-> NoneV]
       ELSE IF return_type.err # NoneV THEN Err(return_type.err)
       ELSE [err |-> NoneV, name |-> ast_node.name, arg_types |-> args.types,
             return_type |-> return_type.type]

(* _is_class_field_initialization, on the statements of the model *)
IsClassFieldInitialization(stmt) == stmt.k = "SelfAssign"

(* The loop over the arguments of __init__ after self (lines 1995-2007):   *)
(* [err, arg_types].  The annotation tested is the one of the first        *)
(* argument, as in the source.                                             *)
RECURSIVE InitArgs(_, _, _, _)
InitArgs(init_args_ast_nodes, i, loc, g) ==
    IF i > Len(init_args_ast_nodes) THEN [err |-> NoneV, arg_types |-> <<>>]
    ELSE LET arg == init_args_ast_nodes[i]
             type == TypeDeclarationToIr3(arg.annotation, loc \o <<0, i + 1, 0>>, g)
         IN IF init_args_ast_nodes[1].annotation = NoneV
            THEN [err |-> CompilationError(loc \o <<0, i + 1>>,
                              <<"All arguments of __init__ (except \"self\") must have a type annotation.">>, <<>>),
                  arg_types |-> <<>>]
            ELSE IF \E h \in 1..(i - 1) : init_args_ast_nodes[h].arg = arg.arg
            THEN [err |-> CompilationError(loc \o <<0, i + 1>>,
                              <<"Found multiple arguments with name \"", arg.arg, "\".">>,
                              <<[node |-> loc \o <<0, 1 + CHOOSE h \in 1..(i - 1) :
                                                          init_args_ast_nodes[h].arg = arg.arg>>,
                                 msg |-> "A previous argument with name \"" \o arg.arg \o "\" was declared here."]>>),
                  arg_types |-> <<>>]
            ELSE IF type.err # NoneV THEN [err |-> type.err, arg_types |-> <<>>]
            ELSE LET rest == InitArgs(init_args_ast_nodes, i + 1, loc, g)
                 IN [rest EXCEPT !.arg_types = <<[name |-> arg.arg, type |-> type.type]>> \o @]

(* The loop over the statements of __init__ (lines 2021-2042), from the    *)
(* i-th statement of the method on: the error raised, or NoneV.  declared  *)
(* is the set of argument names (the keys of arg_decl_nodes_by_name).      *)
RECURSIVE InitBody(_, _, _, _)
InitBody(init_body_ast_nodes, i, loc, declared) ==
    IF i > Len(init_body_ast_nodes) THEN NoneV
    ELSE LET stmt_ast_node == init_body_ast_nodes[i]
             Previous(h) == /\ h \in 1..(i - 1)
                            /\ init_body_ast_nodes[h].k = "SelfAssign"
                            /\ init_body_ast_nodes[h].value.k = "Name"
                            /\ init_body_ast_nodes[h].value.id = stmt_ast_node.value.id
         IN IF ~(IsClassFieldInitialization(stmt_ast_node) /\ stmt_ast_node.value.k = "Name")
            THEN CompilationError(loc \o <<i>>,
                     <<"Unexpected statement. All statements in __init__ methods must be of the form \"self.some_var = some_var\".">>, <<>>)
            ELSE IF \E h \in 1..(i - 1) : Previous(h)
            THEN CompilationError(loc \o <<i>>,
                     <<"Found multiple assignments to the field \"", stmt_ast_node.value.id, "\".">>,
                     <<[node |-> loc \o <<CHOOSE h \in 1..(i - 1) : Previous(h)>>,
                        msg |-> "A previous assignment to \"self." \o stmt_ast_node.value.id \o "\" was here."]>>)
            ELSE IF stmt_ast_node.attr # stmt_ast_node.value.id
            THEN CompilationError(loc \o <<i>>,
                     <<"__init__ arguments must be assigned to a field of the same name, but \"",
                       stmt_ast_node.value.id, "\" was assigned to \"", stmt_ast_node.attr, "\".">>, <<>>)
            ELSE IF stmt_ast_node.value.id \notin declared
            THEN CompilationError(loc \o <<i>>,
                     <<"Unsupported assignment. All assigments in __init__ methods must assign a parameter to a field with the same name.">>, <<>>)
            ELSE InitBody(init_body_ast_nodes, i + 1, loc, declared)

(* class_definition_ast_to_ir3, for classes without keywords, decorators,  *)
(* varargs, keyword or default arguments: [err, type].                     *)
ClassDefinitionToIr3(ast_node, loc, g) ==
    LET Err(e) == [err |-> e, type |-> NoneV]
        is_exception_class == ast_node.bases # <<>>
        init_defn_ast_node == ast_node.body[1]
        init_loc == loc \o <<1>>
        all_args == init_defn_ast_node.args
        init_args_ast_nodes == SubSeq(all_args, 2, Len(all_args))
        args == InitArgs(init_args_ast_nodes, 1, init_loc, g)
        first_stmt == init_defn_ast_node.body[1]
        init_body_ast_nodes == IF is_exception_class
                               THEN SubSeq(init_defn_ast_node.body, 2, Len(init_defn_ast_node.body))
                               ELSE init_defn_ast_node.body
        declared == {init_args_ast_nodes[i].arg : i \in 1..Len(init_args_ast_nodes)}
        assigned == {init_body_ast_nodes[i].value.id : i \in 1..Len(init_body_ast_nodes)}
        body_err == InitBody(init_defn_ast_node.body, IF is_exception_class THEN 2 ELSE 1,
                             init_loc, declared)
        Unassigned(i) == init_args_ast_nodes[i].arg \notin assigned
    IN IF Len(ast_node.bases) > 1
       THEN Err(CompilationError(loc \o <<0, 2>>, <<"Multiple base classes are not supported.">>, <<>>))
       ELSE IF ast_node.bases # <<>> /\ ast_node.bases[1] # "Exception"
       THEN Err(CompilationError(loc \o <<0, 1>>, <<"\"Exception\" is the only supported base class.">>, <<>>))
       ELSE IF Len(ast_node.body) # 1 \/ ast_node.body[1].k # "FunctionDef"
               \/ ast_node.body[1].name # "__init__"
       THEN Err(CompilationError(loc, <<"Custom classes must contain an __init__ method (and nothing else).">>, <<>>))
       ELSE IF all_args = <<>> \/ all_args[1].arg # "self"
       THEN Err(CompilationError(init_loc, <<"Expected \"self\" as first argument of __init__.">>, <<>>))
       ELSE IF all_args[1].annotation # NoneV
       THEN Err(CompilationError(init_loc \o <<0, 1, 0>>,
                    <<"Type annotations on the \"self\" argument are not supported.">>, <<>>))
       ELSE IF init_args_ast_nodes = <<>>
       THEN Err(CompilationError(init_loc,
                    <<"Custom types must have at least 1 constructor argument (and field).">>, <<>>))
       ELSE IF args.err # NoneV THEN Err(args.err)
       ELSE IF is_exception_class
               /\ ~(IsClassFieldInitialization(first_stmt) /\ first_stmt.value.k = "Str"
                    /\ first_stmt.attr = "message")
       THEN Err(CompilationError(init_loc \o <<1>>,
                    <<"Unexpected statement. The first statement in the constructor of an exception class must be of the form: self.message = '...'.">>, <<>>))
       ELSE IF body_err # NoneV THEN Err(body_err)
       ELSE IF \E i \in 1..Len(init_args_ast_nodes) : Unassigned(i)
       THEN LET i == CHOOSE j \in 1..Len(init_args_ast_nodes) :
                         Unassigned(j) /\ \A h \in 1..(j - 1) : ~Unassigned(h)
            IN Err(CompilationError(init_loc \o <<0, i + 1>>,
                       <<"All __init__ arguments must be assigned to fields, but \"",
                         init_args_ast_nodes[i].arg, "\" was never assigned.">>, <<>>))
       ELSE [err |-> NoneV,
             type |-> CustomType(ast_node.name, args.arg_types, is_exception_class)]

(* An add_custom_type_symbol that adds the class to the custom types table *)
(* first and calls add_symbol after.                                       *)
AddCustomTypeSymbolTypeTableFirst(root, g, custom_type, definition_ast_node) ==
    With(TableAddSymbol(g.types, custom_type.name, custom_type, definition_ast_node,
                        FALSE, FALSE),
         LAMBDA types :
    With(CheckNotAlreadyDefined(<<root>>, [g EXCEPT !.types = types], custom_type.name,
                                definition_ast_node),
         LAMBDA err :
            IF err # NoneV THEN [err |-> err, symbol_table |-> root, custom_types |-> types]
            ELSE [err |-> NoneV,
                  symbol_table |-> TableAddSymbol(root, custom_type.name,
                                       FunctionType([i \in 1..Len(custom_type.arg_types) |->
                                                        custom_type.arg_types[i].type],
                                                    custom_type),
                                       definition_ast_node, FALSE, FALSE),
                  custom_types |-> types]))

(* CompilationContext.add_custom_type_symbol: [err, symbol_table,          *)
(* custom_types], the tables being those the call leaves, whether it       *)
(* returns or raises.                                                      *)
AddCustomTypeSymbol(root, g, custom_type, definition_ast_node) ==
    LET err == CheckNotAlreadyDefined(<<root>>, g, custom_type.name, definition_ast_node) IN
    IF err # NoneV THEN [err |-> err, symbol_table |-> root, custom_types |-> g.types]
    ELSE [err |-> NoneV,
          symbol_table |-> TableAddSymbol(root, custom_type.name,
                               FunctionType([i \in 1..Len(custom_type.arg_types) |-> custom_type.arg_types[i].type],
                                            custom_type),
                               definition_ast_node, FALSE, FALSE),
          custom_types |-> TableAddSymbol(g.types, custom_type.name, custom_type,
                                          definition_ast_node, FALSE, FALSE)]

(* The ImportFrom case of the 1st pass (lines 228-243): the error, or      *)
(* NoneV.  names is a sequence of [name, asname].                          *)
SupportedImports(module_name) ==
    CASE module_name = "tmppy" -> {"Type", "empty_list", "empty_set", "match"}
      [] module_name = "typing" -> {"List", "Set", "Callable"}
      [] OTHER -> {}

ImportFromToIr3(ast_node, loc) ==
    LET supported_imports == SupportedImports(ast_node.module)
        Bad(i) == ast_node.names[i].asname # "" \/ ast_node.names[i].name \notin supported_imports
    IN IF supported_imports = {}
       THEN CompilationError(loc, <<"The only modules that can be imported in TMPPy are: tmppy, typing">>, <<>>)
       ELSE IF ast_node.names = <<>>
       THEN CompilationError(loc, <<"Imports must import at least 1 symbol.">>, <<>>)
       ELSE IF \E i \in 1..Len(ast_node.names) : Bad(i)
       THEN LET i == CHOOSE j \in 1..Len(ast_node.names) : Bad(j) /\ \A h \in 1..(j - 1) : ~Bad(h)
            IN IF ast_node.names[i].asname # ""
               THEN CompilationError(loc, <<"TMPPy only supports imports of the form \"from some_module import some_symbol, some_other_symbol\".">>, <<>>)
               ELSE CompilationError(loc, <<"The only supported imports from ", ast_node.module, " are: ",
                                            IF ast_node.module = "tmppy"
                                            THEN "Type, empty_list, empty_set, match"
                                            ELSE "Callable, List, Set", ".">>, <<>>)
       ELSE NoneV

-----------------------------------------------------------------------------
(* What the contexts of one compilation share, as the operators above read *)
(* it: the custom types table, the partially typechecked functions and the *)
(* current function name ("" for None).                                    *)
Shared(function_name) == [types |-> custom_types, partial |-> partial_fns, fn |-> function_name]

(* The state of function_def_ast_to_ir3 once the arguments are added.      *)
FunctionBody(name, ls, args) == [k |-> "FunctionBody", name |-> name, ls |-> ls, args |-> args, finished |-> FALSE]

RaiseError(err) ==
    /\ phase' = "error"
    /\ error' = err

(* One iteration of the 1st pass of module_ast_to_ir3 (lines 212-257) on   *)
(* the next item of the module, drawn from Items.                          *)
(* A first pass that leaves to the 2nd pass every statement it has no      *)
(* branch for.                                                             *)
LeavesEveryOtherStatement(ast_node) ==
    ast_node.k \notin {"FunctionDef", "ImportFrom", "Import", "ClassDef"}

(* The first pass does nothing for an assert: the 2nd pass elaborates it.  *)
IsLeftToSecondPass(ast_node) == ast_node.k = "Assert"

Pass1Item(Items, MaxModuleLen) ==
    /\ phase = "pass1"
    /\ Len(module) < MaxModuleLen
    /\ \E ast_node \in Items :
         LET loc == <<Len(module) + 1>>
             g == Shared("")
             info == FunctionDefToSymbolInfo(ast_node, loc, symbol_table, g)
             defined == CheckNotAlreadyDefined(<<symbol_table>>, g, ast_node.name, loc)
             import_err == ImportFromToIr3(ast_node, loc)
             custom_type == ClassDefinitionToIr3(ast_node, loc, g)
             added == AddCustomTypeSymbol(symbol_table, g, custom_type.type, loc)
             Fail(err) == /\ RaiseError(err)
                          /\ UNCHANGED <<symbol_table, custom_types, partial_fns>>
         IN /\ module' = Append(module, ast_node)
            /\ last_stmt' = [pass |-> 1, node |-> loc, ast |-> ast_node]
            /\ UNCHANGED <<pos, cur, function_defns, assertions>>
            /\ CASE ast_node.k = "FunctionDef" ->
                      IF info.err # NoneV THEN Fail(info.err)
                      ELSE IF defined # NoneV THEN Fail(defined)
                      ELSE IF info.return_type # NoneV
                      THEN /\ symbol_table' = TableAddSymbol(symbol_table, info.name,
                                                  FunctionType(info.arg_types, info.return_type),
                                                  loc, FALSE, TRUE)
                           /\ UNCHANGED <<phase, error, custom_types, partial_fns>>
                      ELSE /\ partial_fns' = [n \in DOMAIN partial_fns \cup {info.name} |->
                                                 IF n = info.name THEN loc ELSE partial_fns[n]]
                           /\ UNCHANGED <<phase, error, symbol_table, custom_types>>
                 [] ast_node.k = "ImportFrom" ->
                      IF import_err # NoneV THEN Fail(import_err)
                      ELSE UNCHANGED <<phase, error, symbol_table, custom_types, partial_fns>>
                 [] ast_node.k = "Import" ->
                      Fail(CompilationError(loc, <<"TMPPy only supports imports of the form \"from some_module import some_symbol, some_other_symbol\".">>, <<>>))
                 [] ast_node.k = "ClassDef" ->
                      IF custom_type.err # NoneV THEN Fail(custom_type.err)
                      ELSE IF added.err # NoneV THEN Fail(added.err)
                      ELSE /\ symbol_table' = added.symbol_table
                           /\ custom_types' = added.custom_types
                           /\ UNCHANGED <<phase, error, partial_fns>>
                 [] IsLeftToSecondPass(ast_node) ->
                      UNCHANGED <<phase, error, symbol_table, custom_types, partial_fns>>
                 [] OTHER ->
                      Fail(CompilationError(loc, <<"This Python construct is not supported in TMPPy">>, <<>>))

(* The 1st pass has read the whole module: the 2nd pass starts. *)
EndPass1 ==
    /\ phase = "pass1"
    /\ phase' = "pass2"
    /\ pos' = 1
    /\ UNCHANGED <<module, symbol_table, custom_types, partial_fns, cur, last_stmt, error,
                   function_defns, assertions>>

(* function_def_ast_to_ir3 up to the call of statements_ast_to_ir3 (lines  *)
(* 723-732), for the function the 2nd pass is at.                          *)
BeginFunction ==
    /\ phase = "pass2"
    /\ pos <= Len(module)
    /\ module[pos].k = "FunctionDef"
    /\ LET ast_node == module[pos]
           args == FunctionArgs(ast_node.args, 1, <<pos>>, EmptyTable, <<symbol_table>>,
                                Shared(ast_node.name))
       IN IF args.err # NoneV
          THEN /\ RaiseError(args.err)
               /\ UNCHANGED cur
          ELSE /\ cur' = FunctionBody(ast_node.name, LoopState(args.scope, NoneV), args.types)
               /\ phase' = "body"
               /\ UNCHANGED error
    /\ UNCHANGED <<module, pos, symbol_table, custom_types, partial_fns, last_stmt,
                   function_defns, assertions>>

(* One iteration of the loop of statements_ast_to_ir3 on a statement of a  *)
(* function body, followed by the check after the loop when the statement  *)
(* is the last one.                                                        *)
BodyStep(statement_node, loc, ls, outer, g, is_last) ==
    With(LoopStep(statement_node, loc, ls, outer, g, is_last, TRUE), LAMBDA ls2 :
         IF ls2.errs = {} /\ is_last THEN StatementsEnd(ls2, loc, TRUE) ELSE ls2)

(* One iteration of the loop of statements_ast_to_ir3 on the body of the   *)
(* function (called with check_block_always_returns and                    *)
(* stmts_are_toplevel_in_function set, line 734), on the next statement of *)
(* the body, drawn from Stmts; is_last says whether it is ast_nodes[-1],   *)
(* and then the check after the loop (lines 679-681) follows.              *)
ElabStmt(Stmts, MaxBodyLen) ==
    /\ phase = "body"
    /\ ~cur.finished
    /\ cur.ls.nstmts < MaxBodyLen
    /\ \E statement_node \in Stmts, is_last \in BOOLEAN :
         /\ is_last \/ cur.ls.nstmts + 1 < MaxBodyLen
         /\ last_stmt' = [pass |-> 2, node |-> <<pos, cur.ls.nstmts + 1>>, ast |-> statement_node,
                          is_last |-> is_last]
         /\ \E ls3 \in {BodyStep(statement_node, <<pos, cur.ls.nstmts + 1>>, cur.ls,
                                 <<symbol_table>>, Shared(cur.name), is_last)} :
              IF ls3.errs # {}
              THEN /\ \E err \in ls3.errs : RaiseError(err)
                   /\ UNCHANGED cur
              ELSE /\ cur' = [cur EXCEPT !.ls = ls3, !.finished = is_last]
                   /\ UNCHANGED <<phase, error>>
    /\ UNCHANGED <<module, pos, symbol_table, custom_types, partial_fns, function_defns, assertions>>

(* set_function_type adding the symbol with is_function_that_may_throw     *)
(* unset.                                                                  *)
SetFunctionTypeNotThrowing(root, partial, name, type) ==
    IF name \in DOMAIN partial
    THEN [symbol_table |-> TableAddSymbol(root, name, type, partial[name], FALSE, FALSE),
          partial_fns |-> [n \in DOMAIN partial \ {name} |-> partial[n]]]
    ELSE [symbol_table |-> root, partial_fns |-> partial]

(* set_function_type without the del of line 142: the entry of the        *)
(* partial function map stays.                                             *)
SetFunctionTypeKeepingEntry(root, partial, name, type) ==
    IF name \in DOMAIN partial
    THEN [symbol_table |-> TableAddSymbol(root, name, type, partial[name], FALSE, TRUE),
          partial_fns |-> partial]
    ELSE [symbol_table |-> root, partial_fns |-> partial]

(* CompilationContext.set_function_type: the root table and the partial    *)
(* function map afterwards.                                                *)
SetFunctionType(root, partial, name, type) ==
    IF name \in DOMAIN partial
    THEN [symbol_table |-> TableAddSymbol(root, name, type, partial[name], FALSE, TRUE),
          partial_fns |-> [n \in DOMAIN partial \ {name} |-> partial[n]]]
    ELSE [symbol_table |-> root, partial_fns |-> partial]

(* The rest of function_def_ast_to_ir3 (lines 739-761) and of the          *)
(* iteration of the 2nd pass (lines 263-269).                              *)
EndFunction ==
    /\ phase = "body"
    /\ cur.finished
    /\ LET ast_node == module[pos]
           first_return_stmt == cur.ls.first_return_stmt
           declared_return_type == TypeDeclarationToIr3(ast_node.returns, <<pos, 8>>, Shared(""))
           return_type == IF ast_node.returns # NoneV THEN declared_return_type.type
                          ELSE IF first_return_stmt = NoneV THEN BottomType
                          ELSE first_return_stmt.type
           set == SetFunctionType(symbol_table, partial_fns, ast_node.name,
                                  FunctionType(cur.args, return_type))
       IN IF ast_node.returns # NoneV /\ declared_return_type.err # NoneV
          THEN /\ RaiseError(declared_return_type.err)
               /\ UNCHANGED <<pos, cur, symbol_table, partial_fns, function_defns>>
          ELSE IF /\ ast_node.returns # NoneV
                  /\ first_return_stmt # NoneV
                  /\ declared_return_type.type # first_return_stmt.type
          THEN /\ RaiseError(CompilationError(<<pos, 8>>,
                      <<ast_node.name, " declared ", declared_return_type.type.k,
                        " as return type, but the actual return type was ",
                        first_return_stmt.type.k, ".">>,
                      <<[node |-> first_return_stmt.node,
                         msg |-> "A " \o first_return_stmt.type.k \o " was returned here"]>>))
               /\ UNCHANGED <<pos, cur, symbol_table, partial_fns, function_defns>>
          ELSE /\ function_defns' = Append(function_defns,
                      [name |-> ast_node.name, args |-> cur.args, return_type |-> return_type])
               /\ symbol_table' = set.symbol_table
               /\ partial_fns' = set.partial_fns
               /\ cur' = NoneV
               /\ pos' = pos + 1
               /\ phase' = "pass2"
               /\ UNCHANGED error
    /\ UNCHANGED <<module, custom_types, last_stmt, assertions>>

(* The iteration of the 2nd pass on a top-level assertion (lines 270-271). *)
ToplevelAssert ==
    /\ phase = "pass2"
    /\ pos <= Len(module)
    /\ module[pos].k = "Assert"
    /\ LET ls == AssertToIr3(module[pos], <<pos>>, LoopState(symbol_table, NoneV), <<>>, Shared(""))
       IN IF ls.errs # {}
          THEN /\ \E err \in ls.errs : RaiseError(err)
               /\ UNCHANGED <<pos, assertions>>
          ELSE /\ assertions' = Append(assertions, AssertMessage(module[pos], pos))
               /\ pos' = pos + 1
               /\ UNCHANGED <<phase, error>>
    /\ UNCHANGED <<module, symbol_table, custom_types, partial_fns, cur, last_stmt, function_defns>>

(* The iteration of the 2nd pass on any other item: nothing is done. *)
SkipItem ==
    /\ phase = "pass2"
    /\ pos <= Len(module)
    /\ module[pos].k \notin {"FunctionDef", "Assert"}
    /\ pos' = pos + 1
    /\ UNCHANGED <<phase, module, symbol_table, custom_types, partial_fns, cur, last_stmt, error,
                   function_defns, assertions>>

(* The 2nd pass is over: module_ast_to_ir3 returns the ir3.Module. *)
Finish ==
    /\ phase = "pass2"
    /\ pos > Len(module)
    /\ phase' = "done"
    /\ UNCHANGED <<module, pos, symbol_table, custom_types, partial_fns, cur, last_stmt, error,
                   function_defns, assertions>>

(* module_ast_to_ir3 is entered: empty tables, nothing read yet. *)
ElabInit ==
    /\ phase = "pass1"
    /\ module = <<>>
    /\ pos = 0
    /\ symbol_table = EmptyTable
    /\ custom_types = EmptyTable
    /\ partial_fns = EmptyTable
    /\ cur = NoneV
    /\ last_stmt = NoneV
    /\ error = NoneV
    /\ function_defns = <<>>
    /\ assertions = <<>>

-----------------------------------------------------------------------------
(* The ast nodes the modules below are made of.                            *)
Name(id) == [k |-> "Name", id |-> id]

NameConstant(value) == [k |-> "NameConstant", value |-> value]

(* The literal of a small natural number, and the literal of any value.    *)
Num(n) == [k |-> "Num", n |-> PyInt(FALSE, <<0, 0, 0, n>>)]

NumOf(n) == [k |-> "Num", n |-> n]

USub(operand) == [k |-> "UnaryOp", op |-> "USub", operand |-> operand]

Call(func, args) == [k |-> "Call", func |-> func, args |-> args]

Assign(target, value) == [k |-> "Assign", target |-> target, value |-> value]

Return(value) == [k |-> "Return", value |-> value]

(* assert test, on the source line `assert ...`: msg is the ast.Str of the *)
(* message, line the text of the source line of the statement.            *)
AssertStmt(test) == [k |-> "Assert", test |-> test, msg |-> NoneV, line |-> <<"assert ...">>]

If(test, body, orelse) == [k |-> "If", test |-> test, body |-> body, orelse |-> orelse]

RaiseStmt(exc) == [k |-> "Raise", exc |-> exc, cause |-> NoneV]

Try(body, handlers) == [k |-> "Try", body |-> body, handlers |-> handlers, orelse |-> <<>>, finalbody |-> <<>>]

ExceptHandler(type, name, body) == [type |-> type, name |-> name, body |-> body]

arg(name, annotation) == [arg |-> name, annotation |-> annotation]

FunctionDef(name, args, returns) == [k |-> "FunctionDef", name |-> name, args |-> args, returns |-> returns]

(* The text of a CompilationError's message.                               *)
RECURSIVE Join(_)
Join(fragments) == IF fragments = <<>> THEN "" ELSE Head(fragments) \o Join(Tail(fragments))

-----------------------------------------------------------------------------
(* Modules of functions, imports and assertions: the two passes.           *)
MaxItems == 3

MaxBodyLen == 2

ModuleItems ==
    { FunctionDef("f", <<arg("x", Name("bool"))>>, NoneV),
      FunctionDef("g", <<arg("x", Name("bool"))>>, NoneV),
      FunctionDef("g", <<arg("x", Name("bool"))>>, Name("bool")),
      FunctionDef("f", <<arg("g", Name("bool"))>>, NoneV),
      AssertStmt(NameConstant(TRUE)),
      AssertStmt(Call(Name("g"), <<NameConstant(TRUE)>>)),
      AssertStmt(Name("undefined_identifier")),
      [k |-> "ImportFrom", module |-> "tmppy", names |-> <<[name |-> "Type", asname |-> ""]>>],
      [k |-> "ImportFrom", module |-> "os", names |-> <<[name |-> "path", asname |-> ""]>>],
      [k |-> "Import", names |-> <<[name |-> "tmppy", asname |-> ""]>>],
      [k |-> "ClassDef", name |-> "T", bases |-> <<>>,
       body |-> <<[k |-> "FunctionDef", name |-> "__init__",
                   args |-> <<arg("self", NoneV), arg("x", Name("bool"))>>,
                   body |-> <<[k |-> "SelfAssign", attr |-> "x", value |-> Name("x")]>>]>>],
      Assign("x", Num(1)),
      [k |-> "Expr", value |-> Call(Name("f"), <<NameConstant(TRUE)>>)],
      [k |-> "Pass"] }

ModuleStmts ==
    { Return(NameConstant(TRUE)),
      Return(Name("x")),
      Return(Name("g")),
      Return(Call(Name("f"), <<Name("x")>>)),
      Return(Call(Name("g"), <<Name("x")>>)),
      Return(Call(Name("g"), <<Name("f")>>)),
      Return(Name("undefined_identifier")),
      Assign("y", Name("g")),
      Assign("y", Call(Name("g"), <<Name("x")>>)),
      AssertStmt(Call(Name("undefined_identifier"), <<Name("x")>>)),
      AssertStmt(Name("y")) }

Init == ElabInit /\ Ir0Idle

Next ==
    \/ Pass1Item(ModuleItems, MaxItems) /\ UNCHANGED ir0Vars
    \/ EndPass1 /\ UNCHANGED ir0Vars
    \/ BeginFunction /\ UNCHANGED ir0Vars
    \/ ElabStmt(ModuleStmts, MaxBodyLen) /\ UNCHANGED ir0Vars
    \/ EndFunction /\ UNCHANGED ir0Vars
    \/ ToplevelAssert /\ UNCHANGED ir0Vars
    \/ SkipItem /\ UNCHANGED ir0Vars
    \/ Finish /\ UNCHANGED ir0Vars

vars == <<elabVars, ir0Vars>>

Spec == Init /\ [][Next]_vars

-----------------------------------------------------------------------------
(* Function bodies made of branches: if/else and try/except statements     *)
(* whose blocks define x, y and z with one type or another, return or      *)
(* not, and refer to what an earlier statement defined.                    *)
ExceptionClassDef(name, args, body) ==
    [k |-> "ClassDef", name |-> name, bases |-> <<"Exception">>,
     body |-> <<[k |-> "FunctionDef", name |-> "__init__",
                 args |-> <<arg("self", NoneV)>> \o args,
                 body |-> <<[k |-> "SelfAssign", attr |-> "message", value |-> [k |-> "Str", s |-> "oops"]]>>
                          \o body]>>]

BranchItems ==
    { ExceptionClassDef("E", <<arg("b", Name("bool"))>>,
                        <<[k |-> "SelfAssign", attr |-> "b", value |-> Name("b")]>>),
      FunctionDef("f", <<arg("b", Name("bool"))>>, NoneV) }

BranchBlocks ==
    { <<Assign("x", Num(1))>>,
      <<Assign("x", NameConstant(TRUE))>>,
      <<Assign("y", Num(1))>>,
      <<Assign("x", Num(1)), Assign("y", NameConstant(TRUE))>>,
      <<Assign("x", Num(1)), Return(Num(1))>>,
      <<Assign("x", NameConstant(TRUE)), Return(Num(1))>>,
      <<Return(Num(1))>>,
      <<RaiseStmt(Call(Name("E"), <<Name("b")>>))>>,
      <<Assign("z", Name("x"))>>,
      <<If(Name("b"), <<Assign("x", Num(1))>>, <<>>)>>,
      <<If(Name("b"), <<Assign("x", Num(1))>>, <<Assign("x", Num(2))>>)>> }

BranchStmts ==
    { If(Name("b"), body, orelse) : body \in BranchBlocks, orelse \in BranchBlocks \cup {<<>>} }
    \cup { Try(body, <<ExceptHandler(Name("E"), "e", handler)>>) :
               body \in BranchBlocks, handler \in BranchBlocks }
    \cup { Assign("x", Num(1)), Assign("z", Name("x")), Return(Name("x")), Return(Num(1)),
           AssertStmt(Name("b")) }

NextBranch ==
    \/ Pass1Item(BranchItems, MaxItems) /\ UNCHANGED ir0Vars
    \/ EndPass1 /\ UNCHANGED ir0Vars
    \/ BeginFunction /\ UNCHANGED ir0Vars
    \/ ElabStmt(BranchStmts, MaxBodyLen) /\ UNCHANGED ir0Vars
    \/ EndFunction /\ UNCHANGED ir0Vars
    \/ SkipItem /\ UNCHANGED ir0Vars
    \/ Finish /\ UNCHANGED ir0Vars

SpecBranch == Init /\ [][NextBranch]_vars

-----------------------------------------------------------------------------
(* Modules that define an exception class, a function that raises it and a *)
(* function that catches it.                                               *)
ExcItems ==
    { ExceptionClassDef("E", <<>>, <<>>),
      ExceptionClassDef("E", <<arg("b", Name("bool"))>>,
                        <<[k |-> "SelfAssign", attr |-> "b", value |-> Name("b")]>>),
      FunctionDef("g", <<>>, NoneV),
      FunctionDef("g", <<arg("b", Name("bool"))>>, NoneV),
      FunctionDef("h", <<arg("b", Name("bool"))>>, NoneV) }

ExcHandlers ==
    { <<ExceptHandler(Name("E"), "e", <<Return(Name("b"))>>)>>,
      <<ExceptHandler(Name("Exception"), "e", <<Return(Name("b"))>>)>>,
      <<ExceptHandler(Name("int"), "e", <<Return(Name("b"))>>)>> }

ExcStmts ==
    { RaiseStmt(Call(Name("E"), <<>>)),
      RaiseStmt(Call(Name("E"), <<Name("b")>>)),
      RaiseStmt(Name("b")),
      Return(Name("b")),
      Return(Call(Name("g"), <<Name("b")>>)),
      Assign("y", Call(Name("g"), <<Name("b")>>)) }
    \cup { Try(body, handlers) :
             body \in { <<Assign("y", Call(Name("g"), <<Name("b")>>)), Return(Name("b"))>>,
                        <<Return(Call(Name("g"), <<Name("b")>>))>>,
                        <<Return(Call(Name("g"), <<>>))>> },
             handlers \in ExcHandlers }

NextExc ==
    \/ Pass1Item(ExcItems, MaxItems) /\ UNCHANGED ir0Vars
    \/ EndPass1 /\ UNCHANGED ir0Vars
    \/ BeginFunction /\ UNCHANGED ir0Vars
    \/ ElabStmt(ExcStmts, MaxBodyLen) /\ UNCHANGED ir0Vars
    \/ EndFunction /\ UNCHANGED ir0Vars
    \/ SkipItem /\ UNCHANGED ir0Vars
    \/ Finish /\ UNCHANGED ir0Vars

SpecExc == Init /\ [][NextExc]_vars

-----------------------------------------------------------------------------
(*                         IR0 (_py2tmp/ir0.py)                            *)

(* BoolType(), Int64Type(), TypeType(), VariadicType(): an ExprType is its *)
(* kind; a TemplateType also has the types of its arguments.               *)
ExprType(kind) == [kind |-> kind]

TemplateType(argtypes) == [kind |-> "TEMPLATE", argtypes |-> argtypes]

(* A bool is held as Python holds it, as the int 1 or 0; the type tells    *)
(* the two apart.                                                          *)
Literal(value) ==
    [k |-> "Literal",
     value |-> CASE ToString(value) = "TRUE" -> 1 [] ToString(value) = "FALSE" -> 0 [] OTHER -> value,
     type |-> ExprType(IF ToString(value) \in {"TRUE", "FALSE"} THEN "BOOL" ELSE "INT64")]

AtomicTypeLiteral(cpp_type, is_local, is_metafunction_that_may_return_error, type) ==
    [k |-> "AtomicTypeLiteral", cpp_type |-> cpp_type, is_local |-> is_local,
     is_metafunction_that_may_return_error |-> is_metafunction_that_may_return_error,
     type |-> type]

for_local(cpp_type, type) == AtomicTypeLiteral(cpp_type, TRUE, type.kind = "TEMPLATE", type)

(* PointerTypeExpr, ReferenceTypeExpr, RvalueReferenceTypeExpr,            *)
(* ConstTypeExpr and ArrayTypeExpr: k is the name of the class.            *)
TypeModifierExpr(k, type_expr) == [k |-> k, type_expr |-> type_expr, type |-> ExprType("TYPE")]

TypeModifiers ==
    {"PointerTypeExpr", "ReferenceTypeExpr", "RvalueReferenceTypeExpr", "ConstTypeExpr", "ArrayTypeExpr"}

FunctionTypeExpr(return_type_expr, arg_exprs) ==
    [k |-> "FunctionTypeExpr", return_type_expr |-> return_type_expr, arg_exprs |-> arg_exprs,
     type |-> ExprType("TYPE")]

(* NotExpr, UnaryMinusExpr and VariadicTypeExpansion; ClassMemberAccess is *)
(* a UnaryExpr with the name of the member.                                *)
UnaryExpr(k, expr, result_type) == [k |-> k, expr |-> expr, type |-> result_type]

ClassMemberAccess(class_type_expr, member_name, member_type) ==
    [k |-> "ClassMemberAccess", expr |-> class_type_expr, member_name |-> member_name,
     type |-> member_type]

(* ComparisonExpr and Int64BinaryOpExpr.                                   *)
BinaryExpr(k, lhs, rhs, op, result_type) ==
    [k |-> k, lhs |-> lhs, rhs |-> rhs, op |-> op, type |-> result_type]

TemplateInstantiation(template_expr, args, instantiation_might_trigger_static_asserts) ==
    [k |-> "TemplateInstantiation", template_expr |-> template_expr, args |-> args,
     instantiation_might_trigger_static_asserts |-> instantiation_might_trigger_static_asserts,
     type |-> ExprType("TYPE")]

StaticAssert(expr, message) == [k |-> "StaticAssert", expr |-> expr, message |-> message]

ConstantDef(name, expr) == [k |-> "ConstantDef", name |-> name, expr |-> expr]

Typedef(name, expr) == [k |-> "Typedef", name |-> name, expr |-> expr]

TemplateArgDecl(type, name) == [type |-> type, name |-> name]

(* patterns is NoneV or a tuple of expressions, held in the field items.   *)
TemplateSpecialization(args, patterns, body) ==
    [args |-> args, patterns |-> patterns, body |-> body]

(* result_element_names, a sorted tuple in the source, is a set.            *)
TemplateDefn(args, main_definition, specializations, name, description, result_element_names) ==
    [k |-> "TemplateDefn", args |-> args, main_definition |-> main_definition,
     specializations |-> specializations, name |-> name, description |-> description,
     result_element_names |-> result_element_names]

Header(template_defns, toplevel_content, public_names) ==
    [template_defns |-> template_defns, toplevel_content |-> toplevel_content,
     public_names |-> public_names]

RECURSIVE references_any_of(_, _)
references_any_of(expr, variables) ==
    CASE expr.k = "Literal" -> FALSE
      [] expr.k = "AtomicTypeLiteral" -> expr.cpp_type \in variables
      [] expr.k \in TypeModifiers -> references_any_of(expr.type_expr, variables)
      [] expr.k = "FunctionTypeExpr" ->
            \/ references_any_of(expr.return_type_expr, variables)
            \/ \E i \in DOMAIN expr.arg_exprs : references_any_of(expr.arg_exprs[i], variables)
      [] expr.k \in {"ComparisonExpr", "Int64BinaryOpExpr"} ->
            references_any_of(expr.lhs, variables) \/ references_any_of(expr.rhs, variables)
      [] expr.k = "TemplateInstantiation" ->
            \/ references_any_of(expr.template_expr, variables)
            \/ \E i \in DOMAIN expr.args : references_any_of(expr.args[i], variables)
      [] OTHER -> references_any_of(expr.expr, variables)

-----------------------------------------------------------------------------
(*                   The C++ emitter (_py2tmp/ir0_to_cpp.py)               *)

(* ', '.join(strings)                                                      *)
RECURSIVE JoinComma(_)
JoinComma(strings) ==
    IF strings = <<>> THEN ""
    ELSE IF Len(strings) = 1 THEN strings[1]
    ELSE strings[1] \o ", " \o JoinComma(Tail(strings))

(* The k-th identifier an identifier generator yields.                     *)
identifier_generator(k) == "X" \o ToString(k)

(* A writer, as the functions below see it: top is the list of strings of  *)
(* the ToplevelWriter, elem the list of the TemplateElemWriter they write  *)
(* to (is_top: there is none, they write to the ToplevelWriter), gen the   *)
(* number of identifiers its generator has yielded, ids the identifiers    *)
(* this run drew, exc the Python exception raised ("" if none).            *)
new_id(w) ==
    [id |-> identifier_generator(w.gen + 1),
     w |-> [w EXCEPT !.gen = @ + 1, !.ids = Append(@, identifier_generator(w.gen + 1))]]

write_toplevel_elem(w, s) == [w EXCEPT !.top = Append(@, s)]

write_template_body_elem(w, s) ==
    IF w.is_top THEN write_toplevel_elem(w, s) ELSE [w EXCEPT !.elem = Append(@, s)]

(* raise: the exception is recorded, and Bind skips what would follow.     *)
Raised(w, exc) == [w |-> [w EXCEPT !.exc = exc]]

Bind(result, Body(_)) == IF result.w.exc # "" THEN [w |-> result.w] ELSE Body(result)

RECURSIVE type_to_template_param_declaration(_)
type_to_template_param_declaration(type) ==
    CASE type.kind = "BOOL" -> "bool"
      [] type.kind = "INT64" -> "int64_t"
      [] type.kind = "TYPE" -> "typename"
      [] type.kind = "TEMPLATE" ->
            "template <"
            \o JoinComma([i \in DOMAIN type.argtypes |->
                            type_to_template_param_declaration(type.argtypes[i])])
            \o "> class"
      [] type.kind = "VARIADIC_TYPE" -> "typename..."

template_arg_decl_to_cpp(arg_decl) ==
    type_to_template_param_declaration(arg_decl.type) \o " " \o arg_decl.name

template_args_to_cpp(args) == JoinComma([i \in DOMAIN args |-> template_arg_decl_to_cpp(args[i])])

literal_to_cpp(literal) ==
    IF literal.type.kind = "BOOL"
    THEN (IF literal.value = 1 THEN "true" ELSE "false")
    ELSE ToString(literal.value) \o "LL"

(* _simplify_toplevel_references keeping the kind of the outermost wrapper. *)
keep_outermost_reference(expr) ==
    LET RECURSIVE strip(_)
        strip(e) == IF e.k \in {"RvalueReferenceTypeExpr", "ReferenceTypeExpr"}
                    THEN strip(e.type_expr) ELSE e
    IN TypeModifierExpr(expr.k, strip(expr))

simplify_toplevel_references(expr) ==
    LET RECURSIVE strip(_, _)
        strip(e, has_reference) ==
            IF e.k \in {"RvalueReferenceTypeExpr", "ReferenceTypeExpr"}
            THEN strip(e.type_expr, has_reference \/ e.k = "ReferenceTypeExpr")
            ELSE IF has_reference
                 THEN TypeModifierExpr("ReferenceTypeExpr", e)
                 ELSE TypeModifierExpr("RvalueReferenceTypeExpr", e)
    IN strip(expr, FALSE)

select_best_arg_decl_for_select1st(args) ==
    IF \E i \in DOMAIN args : args[i].type.kind # "TEMPLATE"
    THEN args[CHOOSE i \in DOMAIN args :
                /\ args[i].type.kind # "TEMPLATE"
                /\ \A j \in 1..(i - 1) : args[j].type.kind = "TEMPLATE"]
    ELSE args[1]

(* The index is 1-based here; args is not empty (the caller's assert).     *)
select_best_arg_expr_index_for_select1st(args) ==
    IF \E i \in DOMAIN args : args[i].type.kind # "TEMPLATE"
    THEN CHOOSE i \in DOMAIN args :
            /\ args[i].type.kind # "TEMPLATE"
            /\ \A j \in 1..(i - 1) : args[j].type.kind = "TEMPLATE"
    ELSE 1

(* The dict of the predefined Select1st* templates; "" for a missing key.  *)
select1st_variant(replaced_kind, decl_kind) ==
    CASE replaced_kind = "BOOL" /\ decl_kind = "BOOL" -> "Select1stBoolBool"
      [] replaced_kind = "BOOL" /\ decl_kind = "INT64" -> "Select1stBoolInt64"
      [] replaced_kind = "BOOL" /\ decl_kind = "TYPE" -> "Select1stBoolType"
      [] replaced_kind = "BOOL" /\ decl_kind = "VARIADIC_TYPE" -> "Select1stBoolType"
      [] replaced_kind = "INT64" /\ decl_kind = "BOOL" -> "Select1stInt64Bool"
      [] replaced_kind = "INT64" /\ decl_kind = "INT64" -> "Select1stInt64Int64"
      [] replaced_kind = "INT64" /\ decl_kind = "TYPE" -> "Select1stInt64Type"
      [] replaced_kind = "INT64" /\ decl_kind = "VARIADIC_TYPE" -> "Select1stInt64TypeType"
      [] replaced_kind = "TYPE" /\ decl_kind = "BOOL" -> "Select1stTypeBool"
      [] replaced_kind = "TYPE" /\ decl_kind = "INT64" -> "Select1stTypeInt64"
      [] replaced_kind = "TYPE" /\ decl_kind = "TYPE" -> "Select1stTypeType"
      [] replaced_kind = "TYPE" /\ decl_kind = "VARIADIC_TYPE" -> "Select1stTypeType"
      [] OTHER -> ""

(* The functions below return [w |-> the writer afterwards] and, where the *)
(* source returns a string, text |-> that string.                          *)
RECURSIVE expr_to_cpp(_, _, _)
RECURSIVE exprs_to_cpp(_, _, _, _, _)
RECURSIVE type_expr_to_cpp(_, _, _)
RECURSIVE type_expr_to_cpp_prefix_suffix(_, _, _, _)
RECURSIVE function_type_expr_to_cpp_prefix_suffix(_, _, _, _)
RECURSIVE write_suffix(_, _, _, _)
RECURSIVE template_instantiation_to_cpp(_, _, _, _)
RECURSIVE class_member_access_to_cpp(_, _, _, _, _)
RECURSIVE typedef_to_cpp(_, _, _)

(* ', '.join(expr_to_cpp(e, ...) for e in exprs), from the i-th on; for    *)
(* the arguments of a function type, type_expr_to_cpp on the same          *)
(* ExprWriter (as_type).                                                   *)
exprs_to_cpp(exprs, i, as_type, enclosing_function_defn_args, w) ==
    IF i > Len(exprs) THEN [w |-> w, text |-> ""]
    ELSE Bind(IF as_type
              THEN type_expr_to_cpp(exprs[i], enclosing_function_defn_args, w)
              ELSE expr_to_cpp(exprs[i], enclosing_function_defn_args, w),
         LAMBDA first :
         Bind(exprs_to_cpp(exprs, i + 1, as_type, enclosing_function_defn_args, first.w),
         LAMBDA rest :
              [w |-> rest.w,
               text |-> (IF i = 1 THEN "" ELSE ", ") \o first.text \o rest.text]))

expr_to_cpp(expr, enclosing_function_defn_args, w) ==
    CASE expr.k = "Literal" -> [w |-> w, text |-> literal_to_cpp(expr)]
      [] expr.k \in {"ComparisonExpr", "Int64BinaryOpExpr"} ->
            Bind(expr_to_cpp(expr.lhs, enclosing_function_defn_args, w), LAMBDA lhs :
            Bind(expr_to_cpp(expr.rhs, enclosing_function_defn_args, lhs.w), LAMBDA rhs :
                 [w |-> rhs.w,
                  text |-> "(" \o lhs.text \o ") " \o expr.op \o " (" \o rhs.text \o ")"]))
      [] expr.k = "NotExpr" ->
            Bind(expr_to_cpp(expr.expr, enclosing_function_defn_args, w), LAMBDA inner_expr :
                 [w |-> inner_expr.w, text |-> "!(" \o inner_expr.text \o ")"])
      [] expr.k = "UnaryMinusExpr" ->
            Bind(expr_to_cpp(expr.expr, enclosing_function_defn_args, w), LAMBDA inner_expr :
                 [w |-> inner_expr.w, text |-> "-(" \o inner_expr.text \o ")"])
      [] OTHER -> type_expr_to_cpp(expr, enclosing_function_defn_args, w)

(* The closures write_prefix and write_suffix are what they will write:    *)
(* prefix is a string (write_prefix only writes fragments that are known   *)
(* when the closure is built), suffix a list of fragments and of argument  *)
(* lists still to be emitted, which write_suffix emits when it runs.       *)
type_expr_to_cpp(expr, enclosing_function_defn_args, w) ==
    Bind(type_expr_to_cpp_prefix_suffix(expr, enclosing_function_defn_args, w, FALSE),
    LAMBDA closures :
    Bind(write_suffix(closures.suffix, 1, enclosing_function_defn_args, closures.w),
    LAMBDA written :
         [w |-> written.w, text |-> closures.prefix \o written.text]))

write_suffix(suffix, i, enclosing_function_defn_args, w) ==
    IF i > Len(suffix) THEN [w |-> w, text |-> ""]
    ELSE Bind(IF suffix[i].k = "arg_exprs"
              THEN exprs_to_cpp(suffix[i].arg_exprs, 1, TRUE, enclosing_function_defn_args, w)
              ELSE [w |-> w, text |-> suffix[i].s],
         LAMBDA first :
         Bind(write_suffix(suffix, i + 1, enclosing_function_defn_args, first.w),
         LAMBDA rest :
              [w |-> rest.w, text |-> first.text \o rest.text]))

Fragment(s) == [k |-> "fragment", s |-> s]

(* A function type whose closures never write the parentheses around the   *)
(* modifiers.                                                              *)
function_type_without_parentheses(expr, enclosing_function_defn_args, w, has_modifiers) ==
    Bind(type_expr_to_cpp_prefix_suffix(expr.return_type_expr,
                                        enclosing_function_defn_args, w, FALSE),
    LAMBDA return_type :
         [w |-> return_type.w,
          prefix |-> return_type.prefix,
          suffix |-> <<Fragment(" ("),
                       [k |-> "arg_exprs", arg_exprs |-> expr.arg_exprs],
                       Fragment(")")>>
                     \o return_type.suffix])

function_type_expr_to_cpp_prefix_suffix(expr, enclosing_function_defn_args, w, has_modifiers) ==
    Bind(type_expr_to_cpp_prefix_suffix(expr.return_type_expr,
                                        enclosing_function_defn_args, w, FALSE),
    LAMBDA return_type :
         [w |-> return_type.w,
          prefix |-> return_type.prefix \o (IF has_modifiers THEN "(" ELSE ""),
          suffix |-> (IF has_modifiers THEN <<Fragment(")")>> ELSE <<>>)
                     \o <<Fragment(" ("),
                          [k |-> "arg_exprs", arg_exprs |-> expr.arg_exprs],
                          Fragment(")")>>
                     \o return_type.suffix])

(* unary_modifier_type_expr_to_cpp_prefix_suffix is the second arm.        *)
type_expr_to_cpp_prefix_suffix(expr0, enclosing_function_defn_args, w, has_modifiers) ==
    With(IF expr0.k \in {"RvalueReferenceTypeExpr", "ReferenceTypeExpr"}
         THEN simplify_toplevel_references(expr0)
         ELSE expr0,
    LAMBDA expr :
    CASE expr.k = "FunctionTypeExpr" ->
            function_type_expr_to_cpp_prefix_suffix(expr, enclosing_function_defn_args, w,
                                                    has_modifiers)
      [] expr.k \in TypeModifiers ->
            Bind(type_expr_to_cpp_prefix_suffix(expr.type_expr,
                                                enclosing_function_defn_args, w, TRUE),
            LAMBDA subexpr :
                 [w |-> subexpr.w,
                  prefix |-> subexpr.prefix
                             \o (CASE expr.k = "PointerTypeExpr" -> "*"
                                   [] expr.k = "ReferenceTypeExpr" -> " &"
                                   [] expr.k = "RvalueReferenceTypeExpr" -> " &&"
                                   [] expr.k = "ConstTypeExpr" -> " const "
                                   [] expr.k = "ArrayTypeExpr" -> "[]"),
                  suffix |-> subexpr.suffix])
      [] expr.k = "AtomicTypeLiteral" ->
            [w |-> w, prefix |-> expr.cpp_type, suffix |-> <<>>]
      [] expr.k = "TemplateInstantiation" ->
            Bind(template_instantiation_to_cpp(expr, enclosing_function_defn_args, w, FALSE),
            LAMBDA code : [w |-> code.w, prefix |-> code.text, suffix |-> <<>>])
      [] expr.k = "ClassMemberAccess" ->
            Bind(class_member_access_to_cpp(expr, enclosing_function_defn_args, w, FALSE, FALSE),
            LAMBDA code : [w |-> code.w, prefix |-> code.text, suffix |-> <<>>])
      [] expr.k = "VariadicTypeExpansion" ->
            Bind(expr_to_cpp(expr.expr, enclosing_function_defn_args, w),
            LAMBDA code : [w |-> code.w, prefix |-> code.text \o "...", suffix |-> <<>>])
      [] OTHER -> Raised(w, "NotImplementedError"))

constant_def_to_cpp(constant_def, enclosing_function_defn_args, w) ==
    IF constant_def.expr.type.kind \notin {"BOOL", "INT64"}
    THEN Raised(w, "NotImplementedError")
    ELSE Bind(expr_to_cpp(constant_def.expr, enclosing_function_defn_args, w),
         LAMBDA cpp_meta_expr :
              [w |-> write_template_body_elem(cpp_meta_expr.w,
                        "        static constexpr "
                        \o (IF constant_def.expr.type.kind = "BOOL" THEN "bool" ELSE "int64_t")
                        \o " " \o constant_def.name \o " = " \o cpp_meta_expr.text
                        \o ";\n        ")])

(* The body of a custom Select1st template is written to a                 *)
(* TemplateElemWriter of its own, select1st_variant_body_writer.           *)
custom_select1st_to_cpp(arg_to_replace, arg_decl, enclosing_function_defn_args, w) ==
    With(new_id(w), LAMBDA select1st_variant_id :
    With(new_id(select1st_variant_id.w), LAMBDA forwarded_param_id :
    With([forwarded_param_id.w EXCEPT !.elem = <<>>, !.is_top = FALSE],
    LAMBDA select1st_variant_body_writer :
    Bind(IF arg_to_replace.type.kind \in {"BOOL", "INT64"}
         THEN constant_def_to_cpp(
                  ConstantDef("value", for_local(forwarded_param_id.id, arg_to_replace.type)),
                  enclosing_function_defn_args, select1st_variant_body_writer)
         ELSE typedef_to_cpp(
                  Typedef("value",
                          for_local(forwarded_param_id.id,
                                    IF arg_to_replace.type.kind = "VARIADIC_TYPE"
                                    THEN ExprType("TYPE")
                                    ELSE arg_to_replace.type)),
                  enclosing_function_defn_args, select1st_variant_body_writer),
    LAMBDA body :
         [name |-> select1st_variant_id.id,
          w |-> write_template_body_elem(
                    [body.w EXCEPT !.elem = w.elem, !.is_top = w.is_top],
                    "\n                    // Custom Select1st* template\n"
                    \o "                    template <"
                    \o type_to_template_param_declaration(arg_to_replace.type)
                    \o " " \o forwarded_param_id.id \o ", "
                    \o type_to_template_param_declaration(arg_decl.type) \o ">\n"
                    \o "                    struct " \o select1st_variant_id.id \o " {\n"
                    \o "                      " \o Join(body.w.elem) \o "\n"
                    \o "                    };\n                    ")]))))

(* The end of template_instantiation_to_cpp, from template_params on.      *)
instantiation_to_cpp(instantiation_expr, args, enclosing_function_defn_args, w, omit_typename) ==
    Bind(exprs_to_cpp(args, 1, FALSE, enclosing_function_defn_args, w),
    LAMBDA template_params :
    Bind(IF instantiation_expr.template_expr.k = "ClassMemberAccess"
         THEN class_member_access_to_cpp(instantiation_expr.template_expr,
                                         enclosing_function_defn_args, template_params.w,
                                         omit_typename, TRUE)
         ELSE expr_to_cpp(instantiation_expr.template_expr, enclosing_function_defn_args,
                          template_params.w),
    LAMBDA cpp_fun :
         [w |-> cpp_fun.w, text |-> cpp_fun.text \o "<" \o template_params.text \o ">"]))

(* The argument that refers to a parameter of the enclosing template       *)
(* through Select1st*.                                                     *)
Select1stArg(select1st_variant_name, arg_to_replace, arg_decl) ==
    ClassMemberAccess(
        TemplateInstantiation(
            for_local(select1st_variant_name,
                      TemplateType(<<arg_to_replace.type, arg_decl.type>>)),
            <<arg_to_replace, for_local(arg_decl.name, arg_decl.type)>>,
            FALSE),
        "value", arg_to_replace.type)

template_instantiation_to_cpp(instantiation_expr, enclosing_function_defn_args, w, omit_typename) ==
    With(instantiation_expr.args, LAMBDA args :
    IF /\ instantiation_expr.instantiation_might_trigger_static_asserts
       /\ enclosing_function_defn_args # <<>>
       /\ ~ \E i \in DOMAIN args :
              references_any_of(args[i], {enclosing_function_defn_args[j].name :
                                            j \in DOMAIN enclosing_function_defn_args})
    THEN IF args = <<>> THEN Raised(w, "AssertionError")
         ELSE
         With(select_best_arg_decl_for_select1st(enclosing_function_defn_args),
         LAMBDA arg_decl :
         With(select_best_arg_expr_index_for_select1st(args), LAMBDA arg_index :
         With(args[arg_index], LAMBDA arg_to_replace :
         Bind(IF arg_decl.type.kind # "TEMPLATE" /\ arg_to_replace.type.kind # "TEMPLATE"
              THEN With(select1st_variant(arg_to_replace.type.kind, arg_decl.type.kind),
                   LAMBDA name : IF name = "" THEN Raised(w, "KeyError")
                                 ELSE [w |-> w, name |-> name])
              ELSE custom_select1st_to_cpp(arg_to_replace, arg_decl,
                                           enclosing_function_defn_args, w),
         LAMBDA variant :
              instantiation_to_cpp(
                  instantiation_expr,
                  [args EXCEPT ![arg_index] = Select1stArg(variant.name, arg_to_replace, arg_decl)],
                  enclosing_function_defn_args, variant.w, omit_typename)))))
    ELSE instantiation_to_cpp(instantiation_expr, args, enclosing_function_defn_args, w,
                              omit_typename))

class_member_access_to_cpp(expr, enclosing_function_defn_args, w, omit_typename, parent_expr_is_template_instantiation) ==
    Bind(CASE expr.expr.k = "TemplateInstantiation" ->
                template_instantiation_to_cpp(expr.expr, enclosing_function_defn_args, w, TRUE)
           [] expr.expr.k = "ClassMemberAccess" ->
                class_member_access_to_cpp(expr.expr, enclosing_function_defn_args, w, TRUE, FALSE)
           [] OTHER -> expr_to_cpp(expr.expr, enclosing_function_defn_args, w),
    LAMBDA cpp_fun :
    CASE expr.type.kind \in {"BOOL", "INT64"} ->
            [w |-> cpp_fun.w, text |-> cpp_fun.text \o "::" \o expr.member_name]
      [] expr.type.kind \in {"TYPE", "TEMPLATE"} ->
            [w |-> cpp_fun.w,
             text |-> (IF omit_typename \/ (expr.type.kind = "TEMPLATE"
                                            /\ ~parent_expr_is_template_instantiation)
                       THEN "" ELSE "typename ")
                      \o cpp_fun.text \o "::"
                      \o (IF expr.type.kind = "TEMPLATE" THEN "template " ELSE "")
                      \o expr.member_name]
      [] OTHER -> Raised(cpp_fun.w, "NotImplementedError"))

typedef_to_cpp(typedef, enclosing_function_defn_args, w) ==
    CASE typedef.expr.type.kind = "TYPE" ->
            Bind(expr_to_cpp(typedef.expr, enclosing_function_defn_args, w),
            LAMBDA cpp_meta_expr :
                 [w |-> write_template_body_elem(cpp_meta_expr.w,
                           "            using " \o typedef.name \o " = "
                           \o cpp_meta_expr.text \o ";\n            ")])
      [] typedef.expr.type.kind = "TEMPLATE" ->
            With(typedef.expr.type.argtypes, LAMBDA argtypes :
            With([i \in DOMAIN argtypes |->
                    TemplateArgDecl(argtypes[i], identifier_generator(w.gen + i))],
            LAMBDA template_args :
            Bind(template_instantiation_to_cpp(
                     TemplateInstantiation(
                         typedef.expr,
                         [i \in DOMAIN template_args |->
                            for_local(template_args[i].name, template_args[i].type)],
                         TRUE),
                     enclosing_function_defn_args,
                     [w EXCEPT !.gen = @ + Len(argtypes),
                               !.ids = @ \o [i \in DOMAIN argtypes |-> template_args[i].name]],
                     FALSE),
            LAMBDA cpp_meta_expr :
                 [w |-> write_template_body_elem(cpp_meta_expr.w,
                           "            template <" \o template_args_to_cpp(template_args)
                           \o ">\n            using " \o typedef.name \o " = "
                           \o cpp_meta_expr.text \o ";\n            ")])))
      [] OTHER -> Raised(w, "NotImplementedError")

(* static_assert_to_cpp without its else branch: the assertion is always   *)
(* written as it stands.                                                   *)
static_assert_to_cpp_unguarded(assert_stmt, enclosing_function_defn_args, w) ==
    Bind(expr_to_cpp(assert_stmt.expr, enclosing_function_defn_args, w),
    LAMBDA cpp_meta_expr :
         [w |-> write_template_body_elem(cpp_meta_expr.w,
                   "static_assert(" \o cpp_meta_expr.text \o ", \""
                   \o assert_stmt.message \o "\");")])

static_assert_to_cpp(assert_stmt, enclosing_function_defn_args, w) ==
    Bind(expr_to_cpp(assert_stmt.expr, enclosing_function_defn_args, w),
    LAMBDA cpp_meta_expr :
    With(", \"" \o assert_stmt.message \o "\");", LAMBDA message :
    IF \/ enclosing_function_defn_args = <<>>
       \/ references_any_of(assert_stmt.expr,
                            {enclosing_function_defn_args[j].name :
                               j \in DOMAIN enclosing_function_defn_args})
    THEN [w |-> write_template_body_elem(cpp_meta_expr.w,
                    "static_assert(" \o cpp_meta_expr.text \o message)]
    ELSE IF \E i \in DOMAIN enclosing_function_defn_args :
                enclosing_function_defn_args[i].type.kind \in {"BOOL", "INT64", "TYPE"}
    THEN With(enclosing_function_defn_args[
                  CHOOSE i \in DOMAIN enclosing_function_defn_args :
                     /\ enclosing_function_defn_args[i].type.kind \in {"BOOL", "INT64", "TYPE"}
                     /\ \A j \in 1..(i - 1) :
                          enclosing_function_defn_args[j].type.kind \notin {"BOOL", "INT64", "TYPE"}],
         LAMBDA arg_decl :
              [w |-> write_template_body_elem(cpp_meta_expr.w,
                        "static_assert("
                        \o (CASE arg_decl.type.kind = "BOOL" -> "AlwaysTrueFromBool<"
                              [] arg_decl.type.kind = "INT64" -> "AlwaysTrueFromInt64<"
                              [] arg_decl.type.kind = "TYPE" -> "AlwaysTrueFromType<")
                        \o arg_decl.name \o ">::value && " \o cpp_meta_expr.text \o message)])
    ELSE With(new_id(cpp_meta_expr.w), LAMBDA always_true_id :
              [w |-> write_template_body_elem(always_true_id.w,
                        "            // Custom AlwaysTrueFor* template\n"
                        \o "            template <"
                        \o type_to_template_param_declaration(enclosing_function_defn_args[1].type)
                        \o ">\n            struct " \o always_true_id.id \o " {\n"
                        \o "              static constexpr bool value = true;\n"
                        \o "            };\n"
                        \o "            static_assert(" \o always_true_id.id \o "<"
                        \o enclosing_function_defn_args[1].name \o ">::value && "
                        \o cpp_meta_expr.text \o message \o "\n            ")])))

(* The dispatch of template_specialization_to_cpp and toplevel_elem_to_cpp *)
(* on a StaticAssert, a ConstantDef or a Typedef.                          *)
elem_to_cpp(elem, enclosing_function_defn_args, w) ==
    CASE elem.k = "StaticAssert" -> static_assert_to_cpp(elem, enclosing_function_defn_args, w)
      [] elem.k = "ConstantDef" -> constant_def_to_cpp(elem, enclosing_function_defn_args, w)
      [] elem.k = "Typedef" -> typedef_to_cpp(elem, enclosing_function_defn_args, w)
      [] OTHER -> Raised(w, "NotImplementedError")

-----------------------------------------------------------------------------
(* header_to_cpp as a state machine.  A run r of header_to_cpp is at the   *)
(* idx-th entry of the list of things header_to_cpp does in a row          *)
(* (HeaderSteps); while it is inside template_defn_to_cpp, stack holds one *)
(* frame per call of template_defn_to_cpp in progress (a TemplateDefn in   *)
(* the body of a specialization is emitted by a nested call): the          *)
(* definition, the enclosing_function_defn_args it was called with, the    *)
(* specializations to emit (main definition first), the one being emitted  *)
(* (k), the body element template_specialization_to_cpp is at (j, 0 before *)
(* the child writer exists) and the strings of that child writer.          *)

Runs == {1, 2}

(* Both runs are handed the same generator object.                         *)
SharedGenerator(r) == 1

(* The generator a run of header_to_cpp is handed: one of its own.         *)
GeneratorOf(r) == r

(* header_to_cpp with one loop over the template definitions, in which    *)
(* each forward declaration is followed by its definition.                 *)
HeaderStepsDefiningAtOnce(h) ==
    <<[op |-> "include"]>>
    \o [i \in 1..(2 * Len(h.template_defns)) |->
           [op |-> IF i % 2 = 1 THEN "forward_decl" ELSE "template_defn",
            elem |-> h.template_defns[(i + 1) \div 2]]]
    \o [i \in DOMAIN h.toplevel_content |-> [op |-> "toplevel_elem", elem |-> h.toplevel_content[i]]]

HeaderSteps(h) ==
    <<[op |-> "include"]>>
    \o [i \in DOMAIN h.template_defns |-> [op |-> "forward_decl", elem |-> h.template_defns[i]]]
    \o [i \in DOMAIN h.template_defns |-> [op |-> "template_defn", elem |-> h.template_defns[i]]]
    \o [i \in DOMAIN h.toplevel_content |-> [op |-> "toplevel_elem", elem |-> h.toplevel_content[i]]]

Frame(template_defn, enclosing_function_defn_args) ==
    [defn |-> template_defn,
     enclosing_function_defn_args |-> enclosing_function_defn_args,
     specs |-> (IF template_defn.main_definition = NoneV THEN <<>>
                ELSE <<template_defn.main_definition>>) \o template_defn.specializations,
     k |-> 1, j |-> 0, strings |-> <<>>]

At(r, op) ==
    /\ emit[r].pc = "running"
    /\ emit[r].stack = <<>>
    /\ emit[r].idx <= Len(HeaderSteps(header))
    /\ HeaderSteps(header)[emit[r].idx].op = op

InFrame(r) == emit[r].pc = "running" /\ emit[r].stack # <<>>

TopFrame(r) == emit[r].stack[Len(emit[r].stack)]

(* The writer a function is handed: the TemplateElemWriter whose strings   *)
(* are elem, or the ToplevelWriter.                                        *)
WriterOf(r, elem, is_top) ==
    [top |-> emit[r].strings, elem |-> elem, is_top |-> is_top,
     gen |-> generator[GeneratorOf(r)], ids |-> emit[r].ids, exc |-> ""]

(* The step of run r ends: with an exception, or in the state After(w).    *)
Ends(r, result, After(_)) ==
    /\ generator' = [generator EXCEPT ![GeneratorOf(r)] = result.w.gen]
    /\ emit' = [emit EXCEPT ![r] =
                  IF result.w.exc # ""
                  THEN [@ EXCEPT !.pc = "raised", !.exc = result.w.exc, !.ids = result.w.ids]
                  ELSE After(result.w)]
    /\ UNCHANGED <<header, xform>>

EmitInclude(r) ==
    /\ At(r, "include")
    /\ Ends(r, [w |-> write_toplevel_elem(WriterOf(r, <<>>, TRUE),
                   "        #include <tmppy/tmppy.h>\n        #include <type_traits>\n        ")],
            LAMBDA w : [emit[r] EXCEPT !.strings = w.top, !.idx = @ + 1])

EmitForwardDecl(r) ==
    /\ At(r, "forward_decl")
    /\ LET template_defn == HeaderSteps(header)[emit[r].idx].elem IN
       Ends(r, [w |-> write_toplevel_elem(WriterOf(r, <<>>, TRUE),
                   "        template <" \o template_args_to_cpp(template_defn.args)
                   \o ">\n        struct " \o template_defn.name \o ";\n        ")],
            LAMBDA w : [emit[r] EXCEPT !.strings = w.top, !.idx = @ + 1])

EmitTemplateDefn(r) ==
    /\ At(r, "template_defn")
    /\ emit' = [emit EXCEPT ![r].stack = <<Frame(HeaderSteps(header)[emit[r].idx].elem, <<>>)>>]
    /\ UNCHANGED <<header, generator, xform>>

(* template_defn_to_cpp writes the description and calls                   *)
(* template_specialization_to_cpp, which creates its child writer.         *)
EmitSpecializationBegin(r) ==
    /\ InFrame(r)
    /\ TopFrame(r).j = 0
    /\ TopFrame(r).k <= Len(TopFrame(r).specs)
    /\ LET description == TopFrame(r).defn.description
           depth == Len(emit[r].stack)
       IN Ends(r, [w |-> IF description # ""
                         THEN write_toplevel_elem(WriterOf(r, <<>>, TRUE),
                                                  "// " \o description \o "\n")
                         ELSE WriterOf(r, <<>>, TRUE)],
               LAMBDA w : [emit[r] EXCEPT !.strings = w.top,
                                          !.stack[depth].j = 1,
                                          !.stack[depth].strings = <<>>])

EmitBodyElem(r) ==
    /\ InFrame(r)
    /\ LET frame == TopFrame(r)
           depth == Len(emit[r].stack)
       IN /\ frame.j >= 1
          /\ frame.j <= Len(frame.specs[frame.k].body)
          /\ frame.specs[frame.k].body[frame.j].k # "TemplateDefn"
          /\ Ends(r, elem_to_cpp(frame.specs[frame.k].body[frame.j],
                                 frame.specs[frame.k].args,
                                 WriterOf(r, frame.strings, FALSE)),
                  LAMBDA w : [emit[r] EXCEPT !.strings = w.top, !.ids = w.ids,
                                             !.stack[depth].strings = w.elem,
                                             !.stack[depth].j = @ + 1])

EmitNestedTemplateDefn(r) ==
    /\ InFrame(r)
    /\ LET frame == TopFrame(r) IN
          /\ frame.j >= 1
          /\ frame.j <= Len(frame.specs[frame.k].body)
          /\ frame.specs[frame.k].body[frame.j].k = "TemplateDefn"
          /\ emit' = [emit EXCEPT ![r].stack =
                        Append(@, Frame(frame.specs[frame.k].body[frame.j],
                                        frame.specs[frame.k].args))]
    /\ UNCHANGED <<header, generator, xform>>

(* The end of template_specialization_to_cpp: the struct is written to the *)
(* writer template_defn_to_cpp was called with.                            *)
EmitSpecializationEnd(r) ==
    /\ InFrame(r)
    /\ LET frame == TopFrame(r)
           depth == Len(emit[r].stack)
           specialization == frame.specs[frame.k]
           writer == IF depth = 1 THEN WriterOf(r, <<>>, TRUE)
                     ELSE WriterOf(r, emit[r].stack[depth - 1].strings, FALSE)
           head == "            template <" \o template_args_to_cpp(specialization.args)
                   \o ">\n            struct " \o frame.defn.name
           tail == " {\n              " \o Join(frame.strings) \o "\n            };\n            "
       IN /\ frame.j >= 1
          /\ frame.j > Len(specialization.body)
          /\ Ends(r, IF specialization.patterns # NoneV
                     THEN Bind(exprs_to_cpp(specialization.patterns.items, 1, FALSE,
                                            frame.enclosing_function_defn_args, writer),
                          LAMBDA patterns_str :
                               [w |-> write_template_body_elem(patterns_str.w,
                                         head \o "<" \o patterns_str.text \o ">" \o tail)])
                     ELSE [w |-> write_template_body_elem(writer, head \o tail)],
                  LAMBDA w :
                     IF depth = 1
                     THEN [emit[r] EXCEPT !.strings = w.top, !.ids = w.ids,
                                          !.stack[depth].k = @ + 1,
                                          !.stack[depth].j = 0,
                                          !.stack[depth].strings = <<>>]
                     ELSE [emit[r] EXCEPT !.strings = w.top, !.ids = w.ids,
                                          !.stack[depth - 1].strings = w.elem,
                                          !.stack[depth].k = @ + 1,
                                          !.stack[depth].j = 0,
                                          !.stack[depth].strings = <<>>])

(* template_defn_to_cpp returns.                                           *)
EmitTemplateDefnEnd(r) ==
    /\ InFrame(r)
    /\ TopFrame(r).j = 0
    /\ TopFrame(r).k > Len(TopFrame(r).specs)
    /\ LET depth == Len(emit[r].stack) IN
       emit' = [emit EXCEPT ![r] =
                  IF depth = 1
                  THEN [@ EXCEPT !.stack = <<>>, !.idx = @ + 1]
                  ELSE [@ EXCEPT !.stack = [i \in 1..(depth - 1) |->
                                              IF i = depth - 1
                                              THEN [emit[r].stack[i] EXCEPT !.j = @ + 1]
                                              ELSE emit[r].stack[i]]]]
    /\ UNCHANGED <<header, generator, xform>>

EmitToplevelElem(r) ==
    /\ At(r, "toplevel_elem")
    /\ Ends(r, elem_to_cpp(HeaderSteps(header)[emit[r].idx].elem, <<>>, WriterOf(r, <<>>, TRUE)),
            LAMBDA w : [emit[r] EXCEPT !.strings = w.top, !.ids = w.ids, !.idx = @ + 1])

(* return ''.join(writer.strings)                                          *)
EmitFinish(r) ==
    /\ emit[r].pc = "running"
    /\ emit[r].stack = <<>>
    /\ emit[r].idx > Len(HeaderSteps(header))
    /\ emit' = [emit EXCEPT ![r].pc = "done", ![r].output = Join(emit[r].strings)]
    /\ UNCHANGED <<header, generator, xform>>

EmitInit(Headers) ==
    /\ header \in Headers
    /\ generator = <<0, 0>>
    /\ emit = [r \in Runs |-> [pc |-> "running", idx |-> 1, strings |-> <<>>, stack |-> <<>>,
                               ids |-> <<>>, output |-> "", exc |-> ""]]
    /\ xform = NoneV

-----------------------------------------------------------------------------
(* The Headers the emitter is run on.                                      *)

MaxBodyElems == 2

MaxRefDepth == 3

EmitParamLists ==
    {<<>>,
     <<TemplateArgDecl(ExprType("BOOL"), "b")>>,
     <<TemplateArgDecl(ExprType("INT64"), "n")>>,
     <<TemplateArgDecl(ExprType("TYPE"), "T")>>,
     <<TemplateArgDecl(TemplateType(<<ExprType("TYPE")>>), "F")>>,
     <<TemplateArgDecl(ExprType("VARIADIC_TYPE"), "Ts")>>,
     <<TemplateArgDecl(TemplateType(<<ExprType("TYPE")>>), "F"),
       TemplateArgDecl(ExprType("INT64"), "n")>>}

IntTypeLiteral == AtomicTypeLiteral("int", FALSE, FALSE, ExprType("TYPE"))

(* std::is_same<T, int>::value                                             *)
IsSameExpr ==
    ClassMemberAccess(
        TemplateInstantiation(
            AtomicTypeLiteral("std::is_same", FALSE, FALSE,
                              TemplateType(<<ExprType("TYPE"), ExprType("TYPE")>>)),
            <<for_local("T", ExprType("TYPE")), IntTypeLiteral>>, FALSE),
        "value", ExprType("BOOL"))

EmitAssertExprs ==
    {Literal(TRUE),
     for_local("b", ExprType("BOOL")),
     BinaryExpr("ComparisonExpr", for_local("n", ExprType("INT64")), Literal(1), "==",
                ExprType("BOOL")),
     UnaryExpr("NotExpr", Literal(FALSE), ExprType("BOOL")),
     IsSameExpr}

(* A template definition with the main definition only, and one with a    *)
(* single specialization for int.                                          *)
MainTemplateDefn(name, args, body) ==
    TemplateDefn(args, TemplateSpecialization(args, NoneV, body), <<>>, name, "", {"value"})

SpecializedTemplateDefn(name, args, body) ==
    TemplateDefn(<<TemplateArgDecl(ExprType("TYPE"), "U")>>, NoneV,
                 <<TemplateSpecialization(args, [k |-> "tuple", items |-> <<IntTypeLiteral>>], body)>>,
                 name, "the specialization for int", {"value"})

NestedTemplateDefns ==
    {MainTemplateDefn("Inner", <<TemplateArgDecl(ExprType("TYPE"), "V")>>,
                      <<StaticAssert(Literal(TRUE), "inner")>>),
     SpecializedTemplateDefn("Inner", <<>>, <<StaticAssert(Literal(FALSE), "inner")>>)}

(* template <typename> class std::vector, a value of kind TEMPLATE.        *)
VectorTemplate ==
    AtomicTypeLiteral("std::vector", FALSE, FALSE, TemplateType(<<ExprType("TYPE")>>))

EmitBodyElems ==
    {StaticAssert(expr, "msg") : expr \in EmitAssertExprs}
    \cup {ConstantDef("value", Literal(1)),
          Typedef("type", IntTypeLiteral),
          Typedef("Vec", VectorTemplate),
          Typedef("type", TemplateInstantiation(VectorTemplate, <<IntTypeLiteral>>, TRUE))}
    \cup NestedTemplateDefns

Bodies(Elems, MaxLen) == UNION {[1..n -> Elems] : n \in 1..MaxLen}

TemplateDefnsOver(ParamLists, Elems, MaxLen) ==
    {MainTemplateDefn("Outer", args, body) :
        args \in ParamLists \ {<<>>}, body \in Bodies(Elems, MaxLen)}
    \cup {SpecializedTemplateDefn("Outer", args, body) :
            args \in ParamLists, body \in Bodies(Elems, MaxLen)}

(* The chains of at most depth reference / rvalue-reference wrappers       *)
(* around a type expression.                                               *)
RECURSIVE ReferenceChains(_, _)
ReferenceChains(type_expr, depth) ==
    IF depth = 0 THEN {type_expr}
    ELSE ReferenceChains(type_expr, depth - 1)
         \cup {TypeModifierExpr(k, chain) :
                 k \in {"ReferenceTypeExpr", "RvalueReferenceTypeExpr"},
                 chain \in ReferenceChains(type_expr, depth - 1)}

ReferencedTypeExprs ==
    {IntTypeLiteral,
     TypeModifierExpr("PointerTypeExpr", IntTypeLiteral),
     TypeModifierExpr("ConstTypeExpr", IntTypeLiteral),
     FunctionTypeExpr(IntTypeLiteral, <<IntTypeLiteral>>),
     FunctionTypeExpr(IntTypeLiteral, <<>>)}

EmitToplevelElems ==
    {Typedef("type", chain) :
        chain \in UNION {ReferenceChains(type_expr, MaxRefDepth) : type_expr \in ReferencedTypeExprs}}
    \cup {Typedef("type", TypeModifierExpr("PointerTypeExpr", chain)) :
            chain \in ReferenceChains(IntTypeLiteral, MaxRefDepth)}
    \cup {StaticAssert(Literal(TRUE), "msg"), ConstantDef("value", Literal(-1))}

EmitHeaders ==
    {Header(<<template_defn>>, <<>>, {"Outer"}) :
        template_defn \in TemplateDefnsOver(EmitParamLists, EmitBodyElems, MaxBodyElems)}
    \cup {Header(<<>>, <<elem>>, {}) : elem \in EmitToplevelElems}
    \cup {Header(<<MainTemplateDefn("Outer", <<TemplateArgDecl(ExprType("TYPE"), "T")>>,
                                    <<StaticAssert(Literal(TRUE), "msg")>>),
                   SpecializedTemplateDefn("Other", <<>>, <<>>)>>,
                 <<elem>>, {"Outer", "Other"}) : elem \in EmitToplevelElems}

InitEmit == ElabInit /\ EmitInit(EmitHeaders)

(* One run of header_to_cpp.                                               *)
NextEmit ==
    \/ EmitInclude(1) /\ UNCHANGED elabVars
    \/ EmitForwardDecl(1) /\ UNCHANGED elabVars
    \/ EmitTemplateDefn(1) /\ UNCHANGED elabVars
    \/ EmitSpecializationBegin(1) /\ UNCHANGED elabVars
    \/ EmitBodyElem(1) /\ UNCHANGED elabVars
    \/ EmitNestedTemplateDefn(1) /\ UNCHANGED elabVars
    \/ EmitSpecializationEnd(1) /\ UNCHANGED elabVars
    \/ EmitTemplateDefnEnd(1) /\ UNCHANGED elabVars
    \/ EmitToplevelElem(1) /\ UNCHANGED elabVars
    \/ EmitFinish(1) /\ UNCHANGED elabVars

SpecEmit == InitEmit /\ [][NextEmit]_vars

(* Two runs of header_to_cpp on the same Header, each with a generator     *)
(* that yields the same identifiers.                                       *)
TwoRunsParamLists ==
    {<<TemplateArgDecl(ExprType("INT64"), "n")>>,
     <<TemplateArgDecl(TemplateType(<<ExprType("TYPE")>>), "F")>>,
     <<TemplateArgDecl(ExprType("VARIADIC_TYPE"), "Ts")>>}

TwoRunsBodyElems ==
    {StaticAssert(Literal(TRUE), "msg"),
     Typedef("Vec", VectorTemplate),
     Typedef("type", TemplateInstantiation(VectorTemplate, <<IntTypeLiteral>>, TRUE)),
     MainTemplateDefn("Inner", <<TemplateArgDecl(TemplateType(<<ExprType("BOOL")>>), "G")>>,
                      <<StaticAssert(Literal(TRUE), "inner")>>)}

TwoRunsHeaders ==
    {Header(<<template_defn>>, <<Typedef("Vec", VectorTemplate)>>, {"Outer"}) :
        template_defn \in TemplateDefnsOver(TwoRunsParamLists, TwoRunsBodyElems, MaxBodyElems)}

InitTwoRuns == ElabInit /\ EmitInit(TwoRunsHeaders)

NextTwoRuns ==
    \/ \E r \in Runs : EmitInclude(r) /\ UNCHANGED elabVars
    \/ \E r \in Runs : EmitForwardDecl(r) /\ UNCHANGED elabVars
    \/ \E r \in Runs : EmitTemplateDefn(r) /\ UNCHANGED elabVars
    \/ \E r \in Runs : EmitSpecializationBegin(r) /\ UNCHANGED elabVars
    \/ \E r \in Runs : EmitBodyElem(r) /\ UNCHANGED elabVars
    \/ \E r \in Runs : EmitNestedTemplateDefn(r) /\ UNCHANGED elabVars
    \/ \E r \in Runs : EmitSpecializationEnd(r) /\ UNCHANGED elabVars
    \/ \E r \in Runs : EmitTemplateDefnEnd(r) /\ UNCHANGED elabVars
    \/ \E r \in Runs : EmitToplevelElem(r) /\ UNCHANGED elabVars
    \/ \E r \in Runs : EmitFinish(r) /\ UNCHANGED elabVars

SpecTwoRuns == InitTwoRuns /\ [][NextTwoRuns]_vars

-----------------------------------------------------------------------------
(*            The base Transformation (_py2tmp/transform_ir0.py)           *)

(* A ToplevelWriter and, while the body of a specialization is rebuilt,    *)
(* the TemplateBodyWriter on top of it (is_body; elems is its list): gen   *)
(* is the number of identifiers the identifier_generator has yielded, exc  *)
(* the Python exception raised ("" if none).  allow_toplevel_elems and     *)
(* allow_template_defns keep their default, True.  transformation is the   *)
(* class of the Transformation that runs (self in its methods), the base   *)
(* class unless a run says otherwise.                                      *)
ToplevelWriter(gen) ==
    [template_defns |-> <<>>, toplevel_elems |-> <<>>, elems |-> <<>>, is_body |-> FALSE,
     gen |-> gen, exc |-> "", transformation |-> "Transformation"]

ToplevelWriter_write(w, elem) ==
    IF elem.k = "TemplateDefn"
    THEN [w EXCEPT !.template_defns = Append(@, elem)]
    ELSE [w EXCEPT !.toplevel_elems = Append(@, elem)]

TemplateBodyWriter(toplevel_writer) == [toplevel_writer EXCEPT !.elems = <<>>, !.is_body = TRUE]

(* A TemplateBodyWriter whose write hands the element to its toplevel      *)
(* writer, as its write_toplevel_elem does.                                *)
write_through_to_toplevel_writer(w, elem) == ToplevelWriter_write(w, elem)

TemplateBodyWriter_write(w, elem) == [w EXCEPT !.elems = Append(@, elem)]

(* writer.write(elem), by the class of the writer.                         *)
Writer_write(w, elem) ==
    IF w.is_body THEN TemplateBodyWriter_write(w, elem) ELSE ToplevelWriter_write(w, elem)

(* writer.write_toplevel_elem(elem): a TemplateBodyWriter hands the element *)
(* to its toplevel writer; a ToplevelWriter has the method of Writer only, *)
(* whose body is empty.                                                    *)
Writer_write_toplevel_elem(w, elem) ==
    IF w.is_body
    THEN [ToplevelWriter_write(w, elem) EXCEPT !.elems = w.elems]
    ELSE w

(* writer.new_id(): the next identifier of the generator of the toplevel   *)
(* writer.                                                                 *)
Writer_new_id(w) == [w |-> [w EXCEPT !.gen = @ + 1], id |-> identifier_generator(w.gen + 1)]

(* A new_constant_or_typedef that writes the definition and returns the    *)
(* expression it was given instead of a reference to the definition.       *)
new_constant_or_typedef_returning_expr(w, expr) ==
    Bind(Writer_new_id(w), LAMBDA new :
         IF expr.type.kind \in {"BOOL", "INT64"}
         THEN [w |-> Writer_write(new.w, ConstantDef(new.id, expr)), expr |-> expr]
         ELSE IF expr.type.kind \in {"TYPE", "TEMPLATE"}
         THEN [w |-> Writer_write(new.w, Typedef(new.id, expr)), expr |-> expr]
         ELSE Raised(new.w, "NotImplementedError"))

(* writer.new_constant_or_typedef(expr)                                    *)
new_constant_or_typedef(w, expr) ==
    Bind(Writer_new_id(w), LAMBDA new :
         IF expr.type.kind \in {"BOOL", "INT64"}
         THEN [w |-> Writer_write(new.w, ConstantDef(new.id, expr)),
               expr |-> for_local(new.id, expr.type)]
         ELSE IF expr.type.kind \in {"TYPE", "TEMPLATE"}
         THEN [w |-> Writer_write(new.w, Typedef(new.id, expr)),
               expr |-> for_local(new.id, expr.type)]
         ELSE Raised(new.w, "NotImplementedError"))

(* The Transformations that are run: the base class, and subclasses that   *)
(* override one method each to write a definition of their own while an    *)
(* element is transformed.  NameLiterals replaces every literal by a       *)
(* reference to a constant or typedef it makes of it with                  *)
(* new_constant_or_typedef; LiteralsToToplevel sends, from inside a body,  *)
(* a ConstantDef of every literal to the top level with                    *)
(* write_toplevel_elem and refers to it; TemplateDefnsToToplevel writes    *)
(* the template definitions nested in a body with the write_toplevel_elem  *)
(* of the body writer instead of its write.                                *)
Transformations ==
    {"Transformation", "NameLiterals", "LiteralsToToplevel", "TemplateDefnsToToplevel"}

(* self.transform_literal(literal, writer); the base class returns the     *)
(* literal.                                                                *)
transform_literal(literal, w) ==
    CASE w.transformation = "NameLiterals" -> new_constant_or_typedef(w, literal)
      [] w.transformation = "LiteralsToToplevel" /\ w.is_body ->
            Bind(Writer_new_id(w), LAMBDA new :
                 [w |-> Writer_write_toplevel_elem(new.w, ConstantDef(new.id, literal)),
                  expr |-> for_local(new.id, literal.type)])
      [] OTHER -> [w |-> w, expr |-> literal]

(* self.transform_type_literal(type_literal, writer); the base class       *)
(* returns a copy.                                                         *)
transform_type_literal(type_literal, w) ==
    CASE w.transformation = "NameLiterals" -> new_constant_or_typedef(w, type_literal)
      [] OTHER ->
            [w |-> w,
             expr |-> AtomicTypeLiteral(type_literal.cpp_type, type_literal.is_local,
                                        type_literal.is_metafunction_that_may_return_error,
                                        type_literal.type)]

(* Back in the caller, whose writer was writer: what was written to the    *)
(* toplevel writer stays, the list of the caller's own writer is its own.  *)
BackIn(writer, w) == [w EXCEPT !.elems = writer.elems, !.is_body = writer.is_body]

RECURSIVE transform_expr(_, _)
RECURSIVE transform_exprs(_, _)

(* [self.transform_expr(expr, writer) for expr in exprs]                   *)
transform_exprs(exprs, w) ==
    IF exprs = <<>> THEN [w |-> w, exprs |-> <<>>]
    ELSE Bind(transform_expr(Head(exprs), w), LAMBDA first :
         Bind(transform_exprs(Tail(exprs), first.w), LAMBDA rest :
              [w |-> rest.w, exprs |-> <<first.expr>> \o rest.exprs]))

transform_expr(expr, w) ==
    CASE expr.k = "Literal" -> transform_literal(expr, w)
      [] expr.k = "AtomicTypeLiteral" -> transform_type_literal(expr, w)
      [] expr.k = "ClassMemberAccess" ->
            Bind(transform_expr(expr.expr, w), LAMBDA r :
                 [w |-> r.w, expr |-> ClassMemberAccess(r.expr, expr.member_name, expr.type)])
      [] expr.k = "NotExpr" ->
            Bind(transform_expr(expr.expr, w), LAMBDA r :
                 [w |-> r.w, expr |-> UnaryExpr("NotExpr", r.expr, ExprType("BOOL"))])
      [] expr.k = "UnaryMinusExpr" ->
            Bind(transform_expr(expr.expr, w), LAMBDA r :
                 [w |-> r.w, expr |-> UnaryExpr("UnaryMinusExpr", r.expr, ExprType("INT64"))])
      [] expr.k = "ComparisonExpr" ->
            Bind(transform_expr(expr.lhs, w), LAMBDA lhs :
            Bind(transform_expr(expr.rhs, lhs.w), LAMBDA rhs :
                 [w |-> rhs.w,
                  expr |-> BinaryExpr("ComparisonExpr", lhs.expr, rhs.expr, expr.op,
                                      ExprType("BOOL"))]))
      [] expr.k = "Int64BinaryOpExpr" ->
            Bind(transform_expr(expr.lhs, w), LAMBDA lhs :
            Bind(transform_expr(expr.rhs, lhs.w), LAMBDA rhs :
                 [w |-> rhs.w,
                  expr |-> BinaryExpr("Int64BinaryOpExpr", lhs.expr, rhs.expr, expr.op,
                                      ExprType("INT64"))]))
      [] expr.k = "TemplateInstantiation" ->
            Bind(transform_expr(expr.template_expr, w), LAMBDA template_expr :
            Bind(transform_exprs(expr.args, template_expr.w), LAMBDA args :
                 [w |-> args.w,
                  expr |-> TemplateInstantiation(template_expr.expr, args.exprs,
                               expr.instantiation_might_trigger_static_asserts)]))
      [] expr.k \in TypeModifiers ->
            Bind(transform_expr(expr.type_expr, w), LAMBDA r :
                 [w |-> r.w, expr |-> TypeModifierExpr(expr.k, r.expr)])
      [] expr.k = "FunctionTypeExpr" ->
            Bind(transform_expr(expr.return_type_expr, w), LAMBDA return_type_expr :
            Bind(transform_exprs(expr.arg_exprs, return_type_expr.w), LAMBDA arg_exprs :
                 [w |-> arg_exprs.w,
                  expr |-> FunctionTypeExpr(return_type_expr.expr, arg_exprs.exprs)]))
      [] expr.k = "VariadicTypeExpansion" ->
            Bind(transform_expr(expr.expr, w), LAMBDA r :
                 [w |-> r.w,
                  expr |-> UnaryExpr("VariadicTypeExpansion", r.expr, ExprType("TYPE"))])
      [] OTHER -> Raised(w, "NotImplementedError")

transform_static_assert(static_assert, w) ==
    Bind(transform_expr(static_assert.expr, w), LAMBDA r :
         [w |-> Writer_write(r.w, StaticAssert(r.expr, static_assert.message))])

transform_constant_def(constant_def, w) ==
    Bind(transform_expr(constant_def.expr, w), LAMBDA r :
         [w |-> Writer_write(r.w, ConstantDef(constant_def.name, r.expr))])

transform_typedef(typedef, w) ==
    Bind(transform_expr(typedef.expr, w), LAMBDA r :
         [w |-> Writer_write(r.w, Typedef(typedef.name, r.expr))])

transform_toplevel_elem(elem, w) ==
    CASE elem.k = "StaticAssert" -> transform_static_assert(elem, w)
      [] elem.k = "ConstantDef" -> transform_constant_def(elem, w)
      [] elem.k = "Typedef" -> transform_typedef(elem, w)
      [] OTHER -> Raised(w, "NotImplementedError")

transform_template_arg_decl(arg_decl) == arg_decl

RECURSIVE transform_template_defn(_, _)
RECURSIVE transform_template_body_elems(_, _)
RECURSIVE transform_template_specializations(_, _)

transform_template_body_elem(elem, w) ==
    CASE elem.k = "TemplateDefn" -> transform_template_defn(elem, w)
      [] elem.k = "StaticAssert" -> transform_static_assert(elem, w)
      [] elem.k = "ConstantDef" -> transform_constant_def(elem, w)
      [] elem.k = "Typedef" -> transform_typedef(elem, w)
      [] OTHER -> Raised(w, "NotImplementedError")

(* The elements are transformed into a new TemplateBodyWriter on writer,   *)
(* and the list of that writer is returned.                                *)
transform_template_body_elems(elems, writer) ==
    LET RECURSIVE each(_, _)
        each(i, body_writer) ==
            IF i > Len(elems) THEN [w |-> body_writer]
            ELSE Bind(transform_template_body_elem(elems[i], body_writer),
                      LAMBDA r : each(i + 1, r.w))
    IN Bind(each(1, TemplateBodyWriter(writer)),
            LAMBDA r : [w |-> BackIn(writer, r.w), elems |-> r.w.elems])

(* writer.get_toplevel_writer(): the ToplevelWriter itself, or the one a    *)
(* TemplateBodyWriter is on.                                               *)
get_toplevel_writer(w) == [w EXCEPT !.is_body = FALSE]

transform_template_specialization(specialization, writer) ==
    Bind(IF specialization.patterns # NoneV
         THEN transform_exprs(specialization.patterns.items, writer)
         ELSE [w |-> writer],
         LAMBDA patterns :
    Bind(transform_template_body_elems(specialization.body, get_toplevel_writer(patterns.w)),
         LAMBDA body :
            [w |-> BackIn(patterns.w, body.w),
             specialization |->
                 TemplateSpecialization(
                     [i \in DOMAIN specialization.args |->
                         transform_template_arg_decl(specialization.args[i])],
                     IF specialization.patterns # NoneV
                     THEN [k |-> "tuple", items |-> patterns.exprs]
                     ELSE NoneV,
                     body.elems)]))

(* [self.transform_template_specialization(s, writer) for s in ...]        *)
transform_template_specializations(specializations, w) ==
    IF specializations = <<>> THEN [w |-> w, specializations |-> <<>>]
    ELSE Bind(transform_template_specialization(Head(specializations), w), LAMBDA first :
         Bind(transform_template_specializations(Tail(specializations), first.w), LAMBDA rest :
              [w |-> rest.w,
               specializations |-> <<first.specialization>> \o rest.specializations]))

transform_template_defn(template_defn, writer) ==
    Bind(IF template_defn.main_definition # NoneV
         THEN transform_template_specialization(template_defn.main_definition, writer)
         ELSE [w |-> writer, specialization |-> NoneV],
         LAMBDA main_definition :
    Bind(transform_template_specializations(template_defn.specializations, main_definition.w),
         LAMBDA specializations :
    With(TemplateDefn([i \in DOMAIN template_defn.args |->
                          transform_template_arg_decl(template_defn.args[i])],
                      main_definition.specialization,
                      specializations.specializations,
                      template_defn.name,
                      template_defn.description,
                      template_defn.result_element_names),
         LAMBDA defn :
            IF writer.transformation = "TemplateDefnsToToplevel" /\ writer.is_body
            THEN [w |-> Writer_write_toplevel_elem(specializations.w, defn)]
            ELSE [w |-> Writer_write(specializations.w, defn)])))

(* transform_header as a state machine: the call is at the i-th step of    *)
(* its two loops, the template definitions first and the toplevel content  *)
(* after them, with the ToplevelWriter it created (writer).                *)
TransformRunning == xform.pc = "running"

(* The step ends: with an exception, or with the next element to do.       *)
TransformStep(result) ==
    /\ xform' = IF result.w.exc # ""
                THEN [xform EXCEPT !.pc = "raised", !.exc = result.w.exc]
                ELSE [xform EXCEPT !.writer = result.w, !.i = @ + 1]
    /\ generator' = [generator EXCEPT ![1] = result.w.gen]
    /\ UNCHANGED <<header, emit>>

TransformTemplateDefn ==
    /\ TransformRunning
    /\ xform.i <= Len(header.template_defns)
    /\ TransformStep(transform_template_defn(header.template_defns[xform.i], xform.writer))

TransformToplevelElem ==
    /\ TransformRunning
    /\ xform.i > Len(header.template_defns)
    /\ xform.i <= Len(header.template_defns) + Len(header.toplevel_content)
    /\ TransformStep(transform_toplevel_elem(
                        header.toplevel_content[xform.i - Len(header.template_defns)],
                        xform.writer))

TransformHeaderReturn ==
    /\ TransformRunning
    /\ xform.i > Len(header.template_defns) + Len(header.toplevel_content)
    /\ xform' = [xform EXCEPT !.pc = "done",
                              !.result = Header(xform.writer.template_defns,
                                                xform.writer.toplevel_elems,
                                                header.public_names)]
    /\ UNCHANGED <<header, generator, emit>>

(* The Headers the base Transformation is run on: those of the emitter,    *)
(* and Headers with several template definitions and toplevel elements.    *)
TransformToplevelElems ==
    {StaticAssert(UnaryExpr("NotExpr", Literal(FALSE), ExprType("BOOL")), "msg"),
     ConstantDef("value",
                 UnaryExpr("UnaryMinusExpr",
                           BinaryExpr("Int64BinaryOpExpr", Literal(1), Literal(2), "+",
                                      ExprType("INT64")),
                           ExprType("INT64"))),
     Typedef("type", TypeModifierExpr("ArrayTypeExpr", IntTypeLiteral)),
     Typedef("type", FunctionTypeExpr(IntTypeLiteral,
                        <<UnaryExpr("VariadicTypeExpansion", for_local("Ts", ExprType("TYPE")),
                                    ExprType("TYPE"))>>))}

TransformHeaders ==
    EmitHeaders
    \cup {Header(<<SpecializedTemplateDefn("Other", <<>>, <<>>),
                   MainTemplateDefn("Outer", <<TemplateArgDecl(ExprType("TYPE"), "T")>>, body)>>,
                 <<first, second>>, {"Outer"}) :
            body \in Bodies(NestedTemplateDefns \cup TransformToplevelElems, MaxBodyElems),
            first \in TransformToplevelElems, second \in TransformToplevelElems}

InitTransform ==
    /\ ElabInit
    /\ header \in TransformHeaders
    /\ generator = <<0, 0>>
    /\ emit = NoneV
    /\ xform = [pc |-> "running", i |-> 1, writer |-> ToplevelWriter(generator[1]),
                result |-> NoneV, exc |-> ""]

NextTransform ==
    \/ TransformTemplateDefn /\ UNCHANGED elabVars
    \/ TransformToplevelElem /\ UNCHANGED elabVars
    \/ TransformHeaderReturn /\ UNCHANGED elabVars

SpecTransform == InitTransform /\ [][NextTransform]_vars

-----------------------------------------------------------------------------
(* What the properties below read off the syntax of a statement.           *)

(* The last statement of the block is a return or a raise, or an if/else   *)
(* or try/except whose two blocks end so.                                  *)
RECURSIVE BlockAlwaysReturns(_)
BlockAlwaysReturns(block) ==
    /\ block # <<>>
    /\ LET last == block[Len(block)] IN
       CASE last.k \in {"Return", "Raise"} -> TRUE
         [] last.k = "If" -> BlockAlwaysReturns(last.body) /\ BlockAlwaysReturns(last.orelse)
         [] last.k = "Try" -> /\ BlockAlwaysReturns(last.body)
                              /\ \A i \in 1..Len(last.handlers) : BlockAlwaysReturns(last.handlers[i].body)
         [] OTHER -> FALSE

(* The block has the statement `name = <literal>`, the literal a number    *)
(* (kind "Num") or a boolean (kind "NameConstant").                        *)
BlockAssigns(block, name, kind) ==
    \E i \in 1..Len(block) :
        block[i].k = "Assign" /\ block[i].target = name /\ block[i].value.k = kind

(* The expression, the statement, the block refers to the name.            *)
RECURSIVE ExprRefers(_, _)
ExprRefers(expr, name) ==
    CASE expr.k = "Name" -> expr.id = name
      [] expr.k = "Call" -> \/ ExprRefers(expr.func, name)
                            \/ \E i \in 1..Len(expr.args) : ExprRefers(expr.args[i], name)
      [] OTHER -> FALSE

RECURSIVE StmtRefers(_, _)
StmtRefers(stmt, name) ==
    CASE stmt.k = "Assign" -> ExprRefers(stmt.value, name)
      [] stmt.k = "Return" -> stmt.value # NoneV /\ ExprRefers(stmt.value, name)
      [] stmt.k = "Assert" -> ExprRefers(stmt.test, name)
      [] stmt.k = "Raise" -> ExprRefers(stmt.exc, name)
      [] stmt.k = "If" -> \/ ExprRefers(stmt.test, name)
                          \/ \E i \in 1..Len(stmt.body) : StmtRefers(stmt.body[i], name)
                          \/ \E i \in 1..Len(stmt.orelse) : StmtRefers(stmt.orelse[i], name)
      [] stmt.k = "Try" -> \/ \E i \in 1..Len(stmt.body) : StmtRefers(stmt.body[i], name)
                           \/ \E h \in 1..Len(stmt.handlers) :
                                  \E i \in 1..Len(stmt.handlers[h].body) :
                                      StmtRefers(stmt.handlers[h].body[i], name)
      [] OTHER -> FALSE

LocalNames == {"x", "y", "z"}

(* The last step elaborated a statement of the function body, of the given *)
(* class, without an error: it is statement number len(statements) of the  *)
(* function the 2nd pass is at.                                            *)
Elaborated(kind) ==
    /\ phase = "body"
    /\ last_stmt.pass = 2
    /\ last_stmt.node = <<pos, cur.ls.nstmts>>
    /\ last_stmt.ast.k = kind

-----------------------------------------------------------------------------
(* C1, first part: after an if/else in which neither block always returns  *)
(* and both blocks assign a number to the name, the name is bound in the   *)
(* enclosing scope, fully defined, with type Int.                          *)
C1_BothBranches ==
    \A name \in LocalNames :
        ( /\ Elaborated("If")
          /\ last_stmt.ast.orelse # <<>>
          /\ ~BlockAlwaysReturns(last_stmt.ast.body)
          /\ ~BlockAlwaysReturns(last_stmt.ast.orelse)
          /\ BlockAssigns(last_stmt.ast.body, name, "Num")
          /\ BlockAssigns(last_stmt.ast.orelse, name, "Num") )
        => /\ name \in DOMAIN cur.ls.scope
           /\ cur.ls.scope[name].type = IntType
           /\ ~cur.ls.scope[name].is_only_partially_defined

(* C1, second part: after an if without else whose body assigns the name   *)
(* and does not always return, the name is bound in the enclosing scope as *)
(* only partially defined.                                                 *)
C1_OneBranch ==
    \A name \in LocalNames :
        ( /\ Elaborated("If")
          /\ last_stmt.ast.orelse = <<>>
          /\ ~BlockAlwaysReturns(last_stmt.ast.body)
          /\ \/ BlockAssigns(last_stmt.ast.body, name, "Num")
             \/ BlockAssigns(last_stmt.ast.body, name, "NameConstant") )
        => /\ name \in DOMAIN cur.ls.scope
           /\ cur.ls.scope[name].is_only_partially_defined

(* C1, third part: a step that elaborates a statement referring to a name  *)
(* which is only partially defined in the scope raises a CompilationError. *)
C1_LaterReference ==
    \A name \in LocalNames :
        ( /\ phase = "body"
          /\ last_stmt' # last_stmt
          /\ name \in DOMAIN cur.ls.scope
          /\ cur.ls.scope[name].is_only_partially_defined
          /\ StmtRefers(last_stmt'.ast, name) )
        => /\ phase' = "error"
           /\ error'.k = "CompilationError"

(* C1: branch merge soundness, the three parts together.                   *)
C1_BranchMergeSoundness ==
    /\ [](C1_BothBranches /\ C1_OneBranch)
    /\ [][C1_LaterReference]_vars

(* C1 happens: x was left only partially defined by an if without else,    *)
(* and the `return x` after it was refused as a reference to a variable    *)
(* that may not have been initialized.                                     *)
C1_Witness ==
    /\ phase = "error"
    /\ last_stmt.pass = 2
    /\ last_stmt.ast = Return(Name("x"))
    /\ "x" \in DOMAIN cur.ls.scope
    /\ cur.ls.scope["x"].is_only_partially_defined
    /\ cur.ls.scope["x"].type = IntType
    /\ Join(error.msg) = "Reference to a variable that may or may not have been initialized (depending on which branch was taken)"
    /\ error.node = last_stmt.node \o <<0>>

-----------------------------------------------------------------------------
(* What the properties of the emitter read off a run of header_to_cpp.     *)

(* The next step of run r is static_assert_to_cpp on a StaticAssert of the *)
(* body of a template specialization.                                      *)
AtStaticAssert(r) ==
    /\ InFrame(r)
    /\ TopFrame(r).j >= 1
    /\ TopFrame(r).j <= Len(TopFrame(r).specs[TopFrame(r).k].body)
    /\ TopFrame(r).specs[TopFrame(r).k].body[TopFrame(r).j].k = "StaticAssert"

ParamNames(args) == {args[i].name : i \in DOMAIN args}

PlainStaticAssert(cpp, message) == "static_assert(" \o cpp \o ", \"" \o message \o "\");"

GuardedStaticAssert(wrapper, param, cpp, message) ==
    "static_assert(" \o wrapper \o "<" \o param \o ">::value && " \o cpp
    \o ", \"" \o message \o "\");"

(* A struct template named id whose member value is true, and the          *)
(* static_assert guarded by it.                                            *)
CustomGuardedStaticAssert(id, param_decl, param, cpp, message) ==
    "            // Custom AlwaysTrueFor* template\n"
    \o "            template <" \o param_decl \o ">\n"
    \o "            struct " \o id \o " {\n"
    \o "              static constexpr bool value = true;\n"
    \o "            };\n            "
    \o GuardedStaticAssert(id, param, cpp, message) \o "\n            "

AlwaysTrueFrom(kind) ==
    CASE kind = "BOOL" -> "AlwaysTrueFromBool"
      [] kind = "INT64" -> "AlwaysTrueFromInt64"
      [] kind = "TYPE" -> "AlwaysTrueFromType"

(* The step of run r emitted the StaticAssert it was at; Holds is told the *)
(* parameters of the specialization, the StaticAssert, the C++ text of its *)
(* expression, the identifier the generator would yield next, and the      *)
(* string the step appended to the body of the specialization.             *)
StaticAssertStep(r, Holds(_, _, _, _, _)) ==
    (AtStaticAssert(r) /\ emit'[r] # emit[r] /\ emit'[r].pc = "running") =>
        LET frame == TopFrame(r)
            depth == Len(emit[r].stack)
            args == frame.specs[frame.k].args
            assert_stmt == frame.specs[frame.k].body[frame.j]
            cpp == expr_to_cpp(assert_stmt.expr, args, WriterOf(r, frame.strings, FALSE))
            strings == emit'[r].stack[depth].strings
        IN /\ Len(strings) = Len(cpp.w.elem) + 1
           /\ SubSeq(strings, 1, Len(cpp.w.elem)) = cpp.w.elem
           /\ Holds(args, assert_stmt, cpp.text, identifier_generator(cpp.w.gen + 1),
                    strings[Len(strings)])

(* C2 as stated: for every template specialization, whatever its parameter *)
(* list, and every StaticAssert in its body, the emitted static_assert     *)
(* either has an expression that references a parameter of the             *)
(* specialization or is guarded by an always-true wrapper applied to a     *)
(* parameter.                                                              *)
C2_AsStated ==
    [][\A r \in Runs : StaticAssertStep(r,
          LAMBDA args, assert_stmt, cpp, next_id, written :
             \/ references_any_of(assert_stmt.expr, ParamNames(args))
             \/ \E i \in DOMAIN args :
                  \/ /\ args[i].type.kind \in {"BOOL", "INT64", "TYPE"}
                     /\ written = GuardedStaticAssert(AlwaysTrueFrom(args[i].type.kind),
                                                      args[i].name, cpp, assert_stmt.message)
                  \/ written = CustomGuardedStaticAssert(
                                   next_id, type_to_template_param_declaration(args[i].type),
                                   args[i].name, cpp, assert_stmt.message))]_vars

(* C2, amended: in a specialization with at least one parameter, a         *)
(* StaticAssert whose expression references a parameter is emitted as it   *)
(* stands, and any other is emitted as                                     *)
(* static_assert(W<p>::value && expr, msg), where p is the first parameter *)
(* of kind Bool, Int64 or Type and W the AlwaysTrueFrom* template of that  *)
(* kind, or, when no parameter has such a kind, p is the first parameter   *)
(* and W a struct template with a fresh name that is emitted just before   *)
(* the static_assert; in a specialization without parameters every         *)
(* StaticAssert is emitted unguarded, as static_assert(expr, msg).         *)
C2_NoPrematureEvaluation ==
    [][\A r \in Runs : StaticAssertStep(r,
          LAMBDA args, assert_stmt, cpp, next_id, written :
             IF args = <<>> \/ references_any_of(assert_stmt.expr, ParamNames(args))
             THEN written = PlainStaticAssert(cpp, assert_stmt.message)
             ELSE IF \E i \in DOMAIN args : args[i].type.kind \in {"BOOL", "INT64", "TYPE"}
             THEN \E i \in DOMAIN args :
                    /\ args[i].type.kind \in {"BOOL", "INT64", "TYPE"}
                    /\ \A j \in 1..(i - 1) : args[j].type.kind \notin {"BOOL", "INT64", "TYPE"}
                    /\ written = GuardedStaticAssert(AlwaysTrueFrom(args[i].type.kind),
                                                     args[i].name, cpp, assert_stmt.message)
             ELSE written = CustomGuardedStaticAssert(
                                next_id, type_to_template_param_declaration(args[1].type),
                                args[1].name, cpp, assert_stmt.message))]_vars

(* C2 happens: in a specialization whose parameters are a template F and   *)
(* an int64 n, the constant assertion was emitted guarded by n.            *)
C2_Witness ==
    /\ InFrame(1)
    /\ TopFrame(1).j = 2
    /\ TopFrame(1).specs[TopFrame(1).k].args
         = <<TemplateArgDecl(TemplateType(<<ExprType("TYPE")>>), "F"),
             TemplateArgDecl(ExprType("INT64"), "n")>>
    /\ TopFrame(1).specs[TopFrame(1).k].body[1] = StaticAssert(Literal(TRUE), "msg")
    /\ TopFrame(1).strings
         = <<"static_assert(AlwaysTrueFromInt64<n>::value && true, \"msg\");">>

-----------------------------------------------------------------------------
(* What the properties of the two passes read off a step of the 2nd pass.  *)

(* The expression a simple statement elaborates.                           *)
StmtExpr(stmt) ==
    CASE stmt.k = "Assert" -> stmt.test
      [] stmt.k \in {"Assign", "Return"} -> stmt.value
      [] OTHER -> NoneV

(* The elaboration of the expression gets to look the name up: the name is *)
(* the expression, or the called expression gets to, or the called         *)
(* expression is a function and an argument gets to, the arguments before  *)
(* it raising nothing.                                                     *)
RECURSIVE Elaborates(_, _, _, _)
Elaborates(expr, name, scopes, g) ==
    CASE expr.k = "Name" -> expr.id = name
      [] expr.k = "Call" ->
            \/ Elaborates(expr.func, name, scopes, g)
            \/ /\ ExprToIr3(expr.func, <<>>, scopes, g).err = NoneV
               /\ ExprToIr3(expr.func, <<>>, scopes, g).type.k = "Fn"
               /\ \E i \in 1..Len(expr.args) :
                     /\ \A j \in 1..(i - 1) : ExprToIr3(expr.args[j], <<>>, scopes, g).err = NoneV
                     /\ Elaborates(expr.args[i], name, scopes, g)
      [] OTHER -> FALSE

(* The module defines the function, without a declared return type, at     *)
(* one of the given places.                                                *)
UndeclaredAt(name, places) ==
    \E i \in places :
        /\ i \in 1..Len(module)
        /\ module[i].k = "FunctionDef"
        /\ module[i].name = name
        /\ module[i].returns = NoneV

(* The Function type the 2nd pass inferred for the function.               *)
InferredType(name) ==
    LET function_defn == function_defns[CHOOSE i \in 1..Len(function_defns) :
                                           function_defns[i].name = name]
    IN FunctionType(function_defn.args, function_defn.return_type)

RecursiveReference ==
    "Recursive function references are only allowed if the return type is declared explicitly."

NotYetDetermined(name) ==
    "Reference to a function whose return type hasn't been determined yet. Please add a return type declaration in "
    \o name \o " or move its declaration before its use."

(* The error is one of the two about a reference to the function, not yet  *)
(* typed, that the note points at.                                         *)
PendingReferenceError(err, name) ==
    /\ err.k = "CompilationError"
    /\ Join(err.msg) \in {RecursiveReference, NotYetDetermined(name)}
    /\ Len(err.notes) = 1
    /\ err.notes[1].msg = name \o " was defined here"

(* What the claim says of a step of the 2nd pass that elaborates the       *)
(* statement, in function fn ("" at the top level) with the local scope.   *)
ReferenceOrdered(stmt, scope, fn) ==
    \A name \in {"f", "g"} :
        ( /\ name \notin DOMAIN scope
          /\ Elaborates(StmtExpr(stmt), name, <<symbol_table, scope>>, Shared(fn)) )
        => /\ UndeclaredAt(name, pos..Len(module)) =>
                /\ phase' = "error"
                /\ PendingReferenceError(error', name)
                /\ Join(error'.msg) = (IF name = fn THEN RecursiveReference
                                       ELSE NotYetDetermined(name))
                /\ Join(error'.msg) = RecursiveReference <=> name = fn
           /\ UndeclaredAt(name, 1..(pos - 1)) =>
                /\ ExprToIr3(Name(name), <<>>, <<symbol_table, scope>>, Shared(fn))
                      = ExprOk(InferredType(name), name, TRUE)
                /\ phase' = "error" => ~PendingReferenceError(error', name)
                /\ (phase' # "error" /\ stmt = Assign("y", Name(name))) =>
                      cur'.ls.scope["y"].type = InferredType(name)

(* C4: references to functions without a declared return type are ordered  *)
(* by the two passes.  A step of the 2nd pass that elaborates a reference  *)
(* to such a function g, from a function body or from a top-level          *)
(* assertion, raises a CompilationError when the body of g has not been    *)
(* elaborated yet (g is the function the pass is at, or a later one): the  *)
(* 'Recursive function references ...' one exactly when the reference is   *)
(* inside g itself, the 'return type hasn't been determined yet' one       *)
(* otherwise.  When the body of g was elaborated before, the reference     *)
(* resolves to the Function type inferred for g.                           *)
C4_ReferencesOrderedByPasses ==
    [][ /\ ( /\ phase = "body"
             /\ ~cur.finished
             /\ ~(cur.ls.nstmts > 0 /\ cur.ls.last_returns) )
           => ReferenceOrdered(last_stmt'.ast, cur.ls.scope, cur.name)
        /\ ( /\ phase = "pass2"
             /\ pos <= Len(module)
             /\ module[pos].k = "Assert" )
           => ReferenceOrdered(module[pos], EmptyTable, "")
      ]_vars

(* C4 happens: f, defined before g, calls g, and neither declares its      *)
(* return type; the call is refused while the 2nd pass is at f.            *)
C4_Witness ==
    /\ phase = "error"
    /\ pos \in 1..Len(module)
    /\ module[pos] = FunctionDef("f", <<arg("x", Name("bool"))>>, NoneV)
    /\ UndeclaredAt("g", (pos + 1)..Len(module))
    /\ last_stmt.pass = 2
    /\ last_stmt.node = <<pos, 1>>
    /\ last_stmt.ast = Return(Call(Name("g"), <<Name("x")>>))
    /\ Join(error.msg) = NotYetDetermined("g")
    /\ error.node = <<pos, 1, 0, 0>>

-----------------------------------------------------------------------------
(* What the properties of the merge read off a step on an if/else or a     *)
(* try/except.                                                             *)

(* The two branch contexts _join_definitions_in_branches is called with    *)
(* when the statement is elaborated in the scope of ls: of the if and the  *)
(* else block, or of the try and the except block.  reached says that the  *)
(* elaboration gets to the merge, nothing before it raising.               *)
BranchContexts(stmt, loc, ls, outer, g, check_always_returns) ==
    LET scopes == outer \o <<ls.scope>>
        branch1 == StatementsToIr3(stmt.body, loc \o <<1>>, EmptyTable, scopes, g,
                                   ls.previous_return_stmt, check_always_returns, FALSE)
        previous1 == OrElse(ls.previous_return_stmt, branch1.first_return_stmt)
        caught == TypeDeclarationToIr3(stmt.handlers[1].type, loc \o <<3, 0>>, g)
        except_init == AddSymbol(LoopState(EmptyTable, previous1), scopes, g,
                                 stmt.handlers[1].name, caught.type, loc \o <<3>>, FALSE, FALSE)
        branch2 == IF stmt.k = "If"
                   THEN StatementsToIr3(stmt.orelse, loc \o <<2>>, EmptyTable, scopes, g,
                                        previous1, check_always_returns, FALSE)
                   ELSE StatementsLoop(stmt.handlers[1].body, 1, loc \o <<2>>, except_init,
                                       scopes, g, check_always_returns, FALSE)
    IN [reached |-> /\ ~(ls.nstmts > 0 /\ ls.last_returns)
                    /\ branch1.errs = {}
                    /\ branch2.errs = {}
                    /\ IF stmt.k = "If"
                       THEN /\ stmt.orelse # <<>>
                            /\ ExprToIr3(stmt.test, loc \o <<0>>, scopes, g) = ExprOk(BoolType, "b", FALSE)
                       ELSE /\ Len(stmt.handlers) = 1
                            /\ stmt.handlers[1].type.id # "Exception"
                            /\ caught.err = NoneV
                            /\ except_init.errs = {},
        branch1 |-> branch1, branch2 |-> branch2]

(* The name is defined in both branch contexts, with two different types.  *)
DefinedWithTwoTypes(contexts, name) ==
    /\ name \in DOMAIN contexts.branch1.scope
    /\ name \in DOMAIN contexts.branch2.scope
    /\ contexts.branch1.scope[name].type # contexts.branch2.scope[name].type

(* The error of the merge on the name: located at the definition in the    *)
(* second branch, with a note at the definition in the first, and with the *)
(* two types.                                                              *)
ConflictError(contexts, name) ==
    CompilationError(contexts.branch2.scope[name].ast_node,
        <<"The variable ", name, " is defined with type ", contexts.branch2.scope[name].type.k,
          " here, but it was previously defined with type ", contexts.branch1.scope[name].type.k,
          " in another branch.">>,
        <<[node |-> contexts.branch1.scope[name].ast_node,
           msg |-> "A previous definition with type " \o contexts.branch1.scope[name].type.k
                   \o " was here."]>>)

(* A step of the 2nd pass on an if/else or a try/except of a function body *)
(* that gets to the merge, and what Holds says of it.                      *)
MergeStep(Holds(_, _)) ==
    ( /\ phase = "body"
      /\ ~cur.finished
      /\ last_stmt' # last_stmt
      /\ last_stmt'.ast.k \in {"If", "Try"} )
    => \A contexts \in {BranchContexts(last_stmt'.ast, last_stmt'.node, cur.ls, <<symbol_table>>,
                                        Shared(cur.name), last_stmt'.is_last)} :
          contexts.reached =>
             \A name \in LocalNames : DefinedWithTwoTypes(contexts, name) => Holds(contexts, name)

-----------------------------------------------------------------------------
(* The exception flow scenarios.                                           *)

IsPrefix(s, t) == Len(s) <= Len(t) /\ s = SubSeq(t, 1, Len(s))

(* class E(Exception) whose __init__(self) only sets self.message, def g() *)
(* and a function with the try/except.                                     *)
ScenarioAsStated ==
    <<ExceptionClassDef("E", <<>>, <<>>),
      FunctionDef("g", <<>>, NoneV),
      FunctionDef("h", <<arg("b", Name("bool"))>>, NoneV)>>

(* The same with one argument b: bool, and a field for it.                 *)
ScenarioWithArgument ==
    <<ExceptionClassDef("E", <<arg("b", Name("bool"))>>,
                        <<[k |-> "SelfAssign", attr |-> "b", value |-> Name("b")]>>),
      FunctionDef("g", <<arg("b", Name("bool"))>>, NoneV),
      FunctionDef("h", <<arg("b", Name("bool"))>>, NoneV)>>

(* The body of g is `raise E(b)`; the body of h is                         *)
(* try: y = g(b); return b / except E as e: return b.                      *)
ScenarioBody(name) ==
    IF name = "g"
    THEN RaiseStmt(Call(Name("E"), <<Name("b")>>))
    ELSE Try(<<Assign("y", Call(Name("g"), <<Name("b")>>)), Return(Name("b"))>>,
             <<ExceptHandler(Name("E"), "e", <<Return(Name("b"))>>)>>)

(* The module read so far is the start of the scenario, the function       *)
(* bodies elaborated so far were the scenario's: g never returns, h        *)
(* returns a bool, and the last statement elaborated is the single         *)
(* statement of the body of its function.                                  *)
Follows(scenario) ==
    /\ IsPrefix(module, scenario)
    /\ (last_stmt # NoneV /\ last_stmt.pass = 2) =>
          /\ Len(last_stmt.node) = 2
          /\ last_stmt.node[2] = 1
          /\ last_stmt.is_last
          /\ last_stmt.ast = ScenarioBody(module[last_stmt.node[1]].name)
    /\ \A i \in 1..Len(function_defns) :
          function_defns[i].return_type =
              (IF function_defns[i].name = "g" THEN BottomType ELSE BoolType)

(* C6 as stated: the module with __init__(self) and def g() is elaborated  *)
(* without any CompilationError.                                           *)
C6_AsStated == Follows(ScenarioAsStated) => phase # "error"

(* C6: the exception flow scenario in which the constructor of E and the   *)
(* function g have an argument (class E(Exception) with __init__(self, b:  *)
(* bool) setting self.message and self.b; g(b: bool) raising E(b); h(b:    *)
(* bool) catching it with `except E as e:`) is elaborated without any      *)
(* CompilationError, and the symbol bound for g, once its body has been    *)
(* elaborated, has may_throw = true.                                       *)
C6_ExceptionFlow ==
    Follows(ScenarioWithArgument) =>
        /\ phase # "error"
        /\ error = NoneV
        /\ \A i \in 1..Len(function_defns) :
              /\ function_defns[i].name \in DOMAIN symbol_table
              /\ symbol_table[function_defns[i].name].is_function_that_may_throw
              /\ symbol_table[function_defns[i].name].type =
                    FunctionType(<<BoolType>>, function_defns[i].return_type)

(* C6 happens: the module of the scenario was elaborated to the end.       *)
C6_Witness ==
    /\ phase = "done"
    /\ module = ScenarioWithArgument
    /\ Follows(ScenarioWithArgument)
    /\ Len(function_defns) = 2
    /\ last_stmt.ast = ScenarioBody("h")
    /\ symbol_table["g"].is_function_that_may_throw
    /\ symbol_table["g"].type = FunctionType(<<BoolType>>, BottomType)

-----------------------------------------------------------------------------
(* What the properties of reference collapsing read off a type expression  *)
(* and off a run of header_to_cpp.                                         *)

ReferenceWrappers == {"ReferenceTypeExpr", "RvalueReferenceTypeExpr"}

(* The type T a chain of reference wrappers is around.                     *)
RECURSIVE WrappedType(_)
WrappedType(expr) == IF expr.k \in ReferenceWrappers THEN WrappedType(expr.type_expr) ELSE expr

(* The chain has an lvalue reference wrapper.                              *)
RECURSIVE HasLvalueReference(_)
HasLvalueReference(expr) ==
    /\ expr.k \in ReferenceWrappers
    /\ expr.k = "ReferenceTypeExpr" \/ HasLvalueReference(expr.type_expr)

ReferenceToken(expr) == IF HasLvalueReference(expr) THEN " &" ELSE " &&"

(* What type_expr_to_cpp emits for the type expression on its own.         *)
TypeText(expr) ==
    type_expr_to_cpp(expr, <<>>, [top |-> <<>>, elem |-> <<>>, is_top |-> TRUE, gen |-> 0,
                                  ids |-> <<>>, exc |-> ""]).text

(* Run 1 has just emitted the top-level element `using type = <chain>;`,   *)
(* TheChain a chain of reference wrappers; EmittedString is what it wrote. *)
ReferenceChainEmitted ==
    /\ emit # NoneV
    /\ emit[1].pc = "running"
    /\ emit[1].stack = <<>>
    /\ emit[1].idx >= 2
    /\ HeaderSteps(header)[emit[1].idx - 1].op = "toplevel_elem"
    /\ HeaderSteps(header)[emit[1].idx - 1].elem.k = "Typedef"
    /\ HeaderSteps(header)[emit[1].idx - 1].elem.expr.k \in ReferenceWrappers

TheChain == HeaderSteps(header)[emit[1].idx - 1].elem.expr

EmittedString == emit[1].strings[Len(emit[1].strings)]

UsingType(text) == "            using type = " \o text \o ";\n            "

(* C7 as stated: the chain is emitted as the text of T followed by the one *)
(* reference token.                                                        *)
C7_AsStated ==
    ReferenceChainEmitted =>
        EmittedString = UsingType(TypeText(WrappedType(TheChain)) \o ReferenceToken(TheChain))

(* C7: reference collapsing.  A chain of reference / rvalue-reference      *)
(* wrappers around a type T is emitted with exactly one reference token,   *)
(* ` &` if the chain has an lvalue reference and ` &&` if it has none: the *)
(* text of T followed by the token when T is not a function type, and the  *)
(* token in parentheses between the return type and the argument list,     *)
(* `R( &) (A1, A2)`, when T is the function type emitted as `R (A1, A2)`.  *)
(* The collapsing function returns the one wrapper around T, and applying  *)
(* it again changes nothing.                                               *)
C7_ReferenceCollapsing ==
    ReferenceChainEmitted =>
        LET T == WrappedType(TheChain)
            token == ReferenceToken(TheChain)
            collapsed == simplify_toplevel_references(TheChain)
        IN /\ EmittedString =
                 UsingType(IF T.k = "FunctionTypeExpr"
                           THEN TypeText(T.return_type_expr) \o "(" \o token \o ") ("
                                \o JoinComma([i \in DOMAIN T.arg_exprs |-> TypeText(T.arg_exprs[i])])
                                \o ")"
                           ELSE TypeText(T) \o token)
           /\ collapsed = TypeModifierExpr(IF HasLvalueReference(TheChain)
                                           THEN "ReferenceTypeExpr"
                                           ELSE "RvalueReferenceTypeExpr", T)
           /\ simplify_toplevel_references(collapsed) = collapsed

(* C7 happens: ref(ref(rref(int))) was emitted as `int &`.                 *)
C7_Witness ==
    /\ ReferenceChainEmitted
    /\ TheChain = TypeModifierExpr("ReferenceTypeExpr",
                     TypeModifierExpr("ReferenceTypeExpr",
                        TypeModifierExpr("RvalueReferenceTypeExpr", IntTypeLiteral)))
    /\ EmittedString = "            using type = int &;\n            "

-----------------------------------------------------------------------------
(* Is template_defn, or a template definition nested in it, defined with a *)
(* template definition in one of its bodies?                               *)
HasNestedTemplateDefn(template_defn) ==
    \E specialization \in
          {template_defn.specializations[i] : i \in DOMAIN template_defn.specializations}
          \cup (IF template_defn.main_definition = NoneV THEN {}
                ELSE {template_defn.main_definition}) :
       \E j \in DOMAIN specialization.body : specialization.body[j].k = "TemplateDefn"

(* C8: the base Transformation preserves the Header.  The call never ends  *)
(* with an exception and draws no identifier from the generator; what its  *)
(* writer holds is at every step what the input has up to that step, in    *)
(* the same order; and the Header it returns has the public_names, the     *)
(* template definitions (the nested ones inside the bodies they were in)   *)
(* and the toplevel content of the input.                                  *)
C8_BaseTransformationPreservesHeader ==
    /\ xform.pc # "raised"
    /\ generator = <<0, 0>>
    /\ xform.writer.gen = 0
    /\ IsPrefix(xform.writer.template_defns, header.template_defns)
    /\ IsPrefix(xform.writer.toplevel_elems, header.toplevel_content)
    /\ xform.pc = "done" =>
          /\ xform.result.public_names = header.public_names
          /\ xform.result.template_defns = header.template_defns
          /\ xform.result.toplevel_content = header.toplevel_content

(* C8 happens: a Header with two template definitions, one of them with a  *)
(* template definition nested in its body after another element, and two   *)
(* different toplevel elements was transformed to the end.                 *)
C8_Witness ==
    /\ xform.pc = "done"
    /\ Len(xform.result.template_defns) = 2
    /\ HasNestedTemplateDefn(xform.result.template_defns[2])
    /\ xform.result.template_defns[2].main_definition.body[1].k # "TemplateDefn"
    /\ Len(xform.result.toplevel_content) = 2
    /\ xform.result.toplevel_content[1] # xform.result.toplevel_content[2]
    /\ xform.result.public_names = {"Outer"}

-----------------------------------------------------------------------------
ReferredNames == LocalNames \cup {"f", "g", "undefined_identifier"}

(* The node of the reference to the name that the elaboration of the       *)
(* expression, the node loc, gets to.                                      *)
RECURSIVE ReferenceNode(_, _, _, _, _)
ReferenceNode(expr, name, loc, scopes, g) ==
    IF expr.k = "Name" THEN loc
    ELSE IF Elaborates(expr.func, name, scopes, g)
         THEN ReferenceNode(expr.func, name, loc \o <<0>>, scopes, g)
         ELSE LET i == CHOOSE i \in 1..Len(expr.args) :
                          /\ \A j \in 1..(i - 1) :
                                ExprToIr3(expr.args[j], <<>>, scopes, g).err = NoneV
                          /\ Elaborates(expr.args[i], name, scopes, g)
              IN ReferenceNode(expr.args[i], name, loc \o <<i>>, scopes, g)

(* The name is bound neither in the scope nor in the global one, and is    *)
(* not a function whose return type the 2nd pass has yet to determine.     *)
Undefined(name, scope) ==
    /\ get_symbol_definition(<<symbol_table, scope>>, name) = NoneV
    /\ name \notin DOMAIN partial_fns

(* A step of the 2nd pass that elaborates the statement, the node loc, in  *)
(* function fn ("" at the top level) with the local scope: a reference to  *)
(* an undefined name it gets to is refused at the node of the reference    *)
(* with the message Message(name).                                         *)
UndefinedReferenceStep(stmt, loc, scope, fn, Message(_)) ==
    \A name \in ReferredNames :
        ( /\ Undefined(name, scope)
          /\ Elaborates(StmtExpr(stmt), name, <<symbol_table, scope>>, Shared(fn)) )
        => /\ phase' = "error"
           /\ error'.k = "CompilationError"
           /\ error'.node = ReferenceNode(StmtExpr(stmt), name, loc \o <<0>>,
                                          <<symbol_table, scope>>, Shared(fn))
           /\ Join(error'.msg) = Message(name)

UndefinedReferences(Message(_)) ==
    /\ ( /\ phase = "body"
         /\ ~cur.finished
         /\ ~(cur.ls.nstmts > 0 /\ cur.ls.last_returns) )
       => UndefinedReferenceStep(last_stmt'.ast, last_stmt'.node, cur.ls.scope, cur.name, Message)
    /\ ( /\ phase = "pass2"
         /\ pos <= Len(module)
         /\ module[pos].k = "Assert" )
       => UndefinedReferenceStep(module[pos], <<pos>>, EmptyTable, "", Message)

(* C9: a reference to a name that is bound neither in the current scope    *)
(* nor in an ancestor scope, and that is not a function whose return type  *)
(* is still to be determined, makes the elaboration fail with a            *)
(* CompilationError at the node of the reference whose message is          *)
(* 'Reference to undefined variable/function: <name>'.                     *)
C9_AsStated ==
    [][UndefinedReferences(LAMBDA name : "Reference to undefined variable/function: " \o name)]_vars

(* C9 happens: in def f(x: bool), `return undefined_identifier` was        *)
(* refused at the reference, with a message that does not name it.         *)
C9_Witness ==
    /\ phase = "error"
    /\ pos \in 1..Len(module)
    /\ module[pos].k = "FunctionDef"
    /\ module[pos].name = "f"
    /\ last_stmt.pass = 2
    /\ last_stmt.ast = Return(Name("undefined_identifier"))
    /\ error.k = "CompilationError"
    /\ error.node = last_stmt.node \o <<0>>
    /\ error.msg = <<"Reference to undefined variable/function">>
    /\ error.notes = <<>>

-----------------------------------------------------------------------------
(* The module-level statements the first pass has a branch for, apart from *)
(* the plain import.                                                       *)
SupportedItems == {"FunctionDef", "ImportFrom", "ClassDef", "Assert"}

UnsupportedConstruct == "This Python construct is not supported in TMPPy"

ImportForm ==
    "TMPPy only supports imports of the form \"from some_module import some_symbol, some_other_symbol\"."

(* Wherever the module has a statement that is none of the supported ones, *)
(* that statement is the last one the first pass got to, the elaboration   *)
(* failed there with the message, and neither a function body nor a        *)
(* top-level assertion was elaborated.                                     *)
FailsPass1(Message(_)) ==
    \A i \in 1..Len(module) :
        module[i].k \notin SupportedItems =>
            /\ phase = "error"
            /\ i = Len(module)
            /\ last_stmt = [pass |-> 1, node |-> <<i>>, ast |-> module[i]]
            /\ error = CompilationError(<<i>>, <<Message(module[i])>>, <<>>)
            /\ pos = 0
            /\ cur = NoneV
            /\ function_defns = <<>>
            /\ assertions = <<>>

(* C10 as stated: a module-level statement that is not a function          *)
(* definition, a from-import, a class definition or an assert makes the    *)
(* elaboration fail during the first pass with 'This Python construct is   *)
(* not supported in TMPPy', before any function body or top-level          *)
(* assertion is elaborated, so that no Module is returned.                 *)
C10_AsStated == FailsPass1(LAMBDA ast_node : UnsupportedConstruct)

(* C10, amended: such a statement makes the elaboration fail when the      *)
(* first pass gets to it, before any function body or top-level assertion  *)
(* is elaborated, so that no Module is returned; the CompilationError is   *)
(* at the statement, and its message is the one about the form of imports  *)
(* for a plain `import m`, and 'This Python construct is not supported in  *)
(* TMPPy' for any other such statement.                                    *)
C10_UnsupportedStatementFailsPass1 ==
    FailsPass1(LAMBDA ast_node : IF ast_node.k = "Import" THEN ImportForm
                                 ELSE UnsupportedConstruct)

(* C10 happens: after a function definition and a top-level assert, the    *)
(* first pass refused `x = 1`.                                             *)
C10_Witness ==
    /\ phase = "error"
    /\ Len(module) = 3
    /\ module[1].k = "FunctionDef"
    /\ module[2].k = "Assert"
    /\ module[3] = Assign("x", Num(1))
    /\ error = CompilationError(<<3>>, <<UnsupportedConstruct>>, <<>>)
    /\ function_defns = <<>>
    /\ assertions = <<>>

-----------------------------------------------------------------------------
(* The names add_symbol is called with: the variables of the bodies, the   *)
(* argument, the exception class, the function and a name nothing binds.   *)
AddedNames == LocalNames \cup {"b", "E", "f", "h"}

(* The name has a binding add_symbol refuses: in the current scope, in the *)
(* custom types table or in the partial function map.                      *)
HasBinding(name, scope) ==
    name \in DOMAIN scope \/ name \in DOMAIN custom_types \/ name \in DOMAIN partial_fns

(* The binding is one of the current scope that is only partially defined. *)
PriorIsPartial(name, scope) == name \in DOMAIN scope /\ scope[name].is_only_partially_defined

AlreadyDefined(name) == name \o " was already defined in this scope."

MaybeAlreadyInitialised(name) == name \o " could be already initialized at this point."

-----------------------------------------------------------------------------
(* The name is defined in exactly one of the two branch contexts.          *)
DefinedInOneBranch(contexts, name) ==
    (name \in DOMAIN contexts.branch1.scope) # (name \in DOMAIN contexts.branch2.scope)

(* A step of the 2nd pass on an if/else or a try/except of a function body *)
(* that gets to the merge and raises nothing, and what Holds says of the   *)
(* branch that defines the name and of the other branch.                   *)
OneSidedMergeStep(Holds(_, _, _)) ==
    ( /\ phase = "body"
      /\ ~cur.finished
      /\ last_stmt' # last_stmt
      /\ last_stmt'.ast.k \in {"If", "Try"}
      /\ phase' = "body" )
    => \A contexts \in {BranchContexts(last_stmt'.ast, last_stmt'.node, cur.ls, <<symbol_table>>,
                                        Shared(cur.name), last_stmt'.is_last)} :
          contexts.reached =>
             \A name \in LocalNames :
                DefinedInOneBranch(contexts, name) =>
                   IF name \in DOMAIN contexts.branch1.scope
                   THEN Holds(name, contexts.branch1, contexts.branch2)
                   ELSE Holds(name, contexts.branch2, contexts.branch1)

(* C12 as stated: a name defined in exactly one of the two branch scopes   *)
(* being merged is bound in the enclosing scope, as partially defined if   *)
(* the other branch does not always return and as fully defined if it      *)
(* does, whatever the defining branch contains.                            *)
C12_AsStated ==
    [][OneSidedMergeStep(LAMBDA name, defining, other :
          /\ name \in DOMAIN cur'.ls.scope
          /\ cur'.ls.scope[name].is_only_partially_defined = ~other.last_returns)]_vars

(* C12: one-sided branch definitions.  A name defined in exactly one of    *)
(* the two branch scopes being merged is bound in the enclosing scope,     *)
(* with the type and the definition it has in that branch, when that       *)
(* branch does not always return: as partially defined if the other branch *)
(* does not always return, and with the flag it has in the defining branch *)
(* if the other branch always returns (fully defined after a plain         *)
(* assignment, partially defined after a nested if without else).  When    *)
(* the defining branch always returns the name is not bound.               *)
C12_OneSidedDefinitions ==
    [][OneSidedMergeStep(LAMBDA name, defining, other :
          IF defining.last_returns
          THEN name \notin DOMAIN cur'.ls.scope
          ELSE /\ name \in DOMAIN cur'.ls.scope
               /\ cur'.ls.scope[name].type = defining.scope[name].type
               /\ cur'.ls.scope[name].ast_node = defining.scope[name].ast_node
               /\ cur'.ls.scope[name].is_only_partially_defined =
                     (IF other.last_returns
                      THEN defining.scope[name].is_only_partially_defined
                      ELSE TRUE))]_vars

(* C12 happens: the if block returns, the else block leaves x partially    *)
(* defined by a nested if without else, and x is partially defined after   *)
(* the statement.                                                          *)
C12_Witness ==
    /\ phase = "body"
    /\ last_stmt.pass = 2
    /\ last_stmt.ast = If(Name("b"), <<Return(Num(1))>>,
                          <<If(Name("b"), <<Assign("x", Num(1))>>, <<>>)>>)
    /\ cur.ls.nstmts = 1
    /\ "x" \in DOMAIN cur.ls.scope
    /\ cur.ls.scope["x"].type = IntType
    /\ cur.ls.scope["x"].is_only_partially_defined

-----------------------------------------------------------------------------
(* No name is both in the partial function map and bound: in the root      *)
(* table, or in the scope of the function body being elaborated.           *)
NoPendingNameIsBound ==
    /\ DOMAIN partial_fns \cap DOMAIN symbol_table = {}
    /\ cur # NoneV => DOMAIN partial_fns \cap DOMAIN cur.ls.scope = {}

(* A step of the 2nd pass that completes the function at pos: its body was *)
(* elaborated, and set_function_type is called with its Function type.     *)
CompletesFunction == phase = "body" /\ cur.finished /\ phase' = "pass2"

(* C13: the partial function state machine.  At every point of the         *)
(* elaboration no name is both pending in the partial function map and     *)
(* bound in a symbol table.  Completing a pending function removes its     *)
(* entry from the map and binds it in the root table as a fully defined    *)
(* symbol of the Function type of its arguments and of the return type     *)
(* that was inferred, located at its definition, with may_throw true, and  *)
(* changes nothing else; completing a function declared with a return      *)
(* type changes no table.                                                  *)
C13_PartialFunctionStateMachine ==
    /\ []NoPendingNameIsBound
    /\ [][CompletesFunction =>
            LET name == module[pos].name
                return_type == function_defns'[Len(function_defns')].return_type
            IN /\ custom_types' = custom_types
               /\ (name \in DOMAIN partial_fns) = (module[pos].returns = NoneV)
               /\ IF name \in DOMAIN partial_fns
                  THEN /\ DOMAIN partial_fns' = DOMAIN partial_fns \ {name}
                       /\ \A n \in DOMAIN partial_fns' : partial_fns'[n] = partial_fns[n]
                       /\ DOMAIN symbol_table' = DOMAIN symbol_table \cup {name}
                       /\ \A n \in DOMAIN symbol_table : symbol_table'[n] = symbol_table[n]
                       /\ symbol_table'[name] =
                             [type |-> FunctionType(cur.args, return_type),
                              ast_node |-> partial_fns[name],
                              is_only_partially_defined |-> FALSE,
                              is_function_that_may_throw |-> TRUE]
                  ELSE /\ partial_fns' = partial_fns
                       /\ symbol_table' = symbol_table
         ]_vars

(* C13 happens: g, declared with its return type, and f, whose return type *)
(* was pending, were both completed, and the module was elaborated.        *)
C13_Witness ==
    /\ phase = "done"
    /\ Len(function_defns) = 2
    /\ \E i, j \in 1..Len(module) :
          /\ module[i].k = "FunctionDef" /\ module[i].name = "g" /\ module[i].returns # NoneV
          /\ module[j].k = "FunctionDef" /\ module[j].name = "f" /\ module[j].returns = NoneV
    /\ partial_fns = <<>>
    /\ {"f", "g"} \subseteq DOMAIN symbol_table
    /\ symbol_table["f"].is_function_that_may_throw
    /\ ~symbol_table["f"].is_only_partially_defined

-----------------------------------------------------------------------------
(* Modules whose statements hold match expressions: a function of a Type   *)
(* and a list of Types that returns one, and top-level assertions on one.  *)
TypeLiteral(s) == [k |-> "TypeLiteral", s |-> s]

TypePointer(e) == [k |-> "TypePointer", arg |-> e]

ListComp(elt, target, iter) == [k |-> "ListComp", elt |-> elt, target |-> target, iter |-> iter]

Tuple(elts) == [k |-> "Tuple", elts |-> elts]

Subscript(value, slice) == [k |-> "Subscript", value |-> value, slice |-> slice]

Match(args, lambda_args, keys, values) ==
    [k |-> "Match", args |-> args, lambda_args |-> lambda_args, keys |-> keys, values |-> values]

MatchPatterns ==
    { Name("a"), Name("b"), Name("T"), TypePointer(Name("a")),
      Tuple(<<Name("a"), Name("b")>>), Tuple(<<TypePointer(Name("b")), Name("T")>>) }

MatchResults ==
    { Name("a"), Name("b"), Num(1), TypePointer(Name("b")),
      ListComp(Name("a"), "x", Name("l")),
      ListComp(Name("x"), "x", Name("l")),
      Match(<<Name("T")>>, <<"c">>, <<Name("c")>>, <<Name("a")>>),
      Match(<<Name("T")>>, <<"c">>, <<Name("c")>>, <<Name("c")>>),
      Match(<<Name("b")>>, <<"c">>, <<Name("c")>>, <<Name("c")>>) }

(* The first branch of the dicts of two branches.                          *)
FirstBranches ==
    { <<Name("a"), Name("a")>>, <<Name("b"), Num(1)>>, <<Tuple(<<Name("a"), Name("b")>>), Name("b")>> }

MatchDicts ==
    {<<>>} \cup { <<branch>> : branch \in MatchPatterns \X MatchResults }
           \cup { <<first, second>> : first \in FirstBranches, second \in MatchPatterns \X MatchResults }

MatchExprs ==
    { Match(args, lambda_args, [i \in DOMAIN dict |-> dict[i][1]], [i \in DOMAIN dict |-> dict[i][2]]) :
          args \in {<<Name("T")>>, <<Name("T"), Name("T")>>},
          lambda_args \in {<<"a">>, <<"a", "b">>},
          dict \in MatchDicts }

MatchItems ==
    { FunctionDef("f", <<arg("T", Name("Type")), arg("l", Subscript("List", Name("Type")))>>, NoneV),
      AssertStmt(Match(<<TypeLiteral("int")>>, <<"a">>, <<Name("a")>>, <<Name("a")>>)),
      AssertStmt(Match(<<TypeLiteral("int")>>, <<"a", "b">>, <<Name("a")>>, <<Name("b")>>)),
      AssertStmt(NameConstant(TRUE)) }

MatchStmts == { Return(m) : m \in MatchExprs }

NextMatch ==
    \/ Pass1Item(MatchItems, MaxItems) /\ UNCHANGED ir0Vars
    \/ EndPass1 /\ UNCHANGED ir0Vars
    \/ BeginFunction /\ UNCHANGED ir0Vars
    \/ ElabStmt(MatchStmts, MaxBodyLen) /\ UNCHANGED ir0Vars
    \/ EndFunction /\ UNCHANGED ir0Vars
    \/ ToplevelAssert /\ UNCHANGED ir0Vars
    \/ Finish /\ UNCHANGED ir0Vars

SpecMatch == Init /\ [][NextMatch]_vars

-----------------------------------------------------------------------------
(* The names an expression refers to, at any depth.                        *)
RECURSIVE NamesIn(_)
NamesIn(expr) ==
    CASE expr.k = "Name" -> {expr.id}
      [] expr.k = "TypePointer" -> NamesIn(expr.arg)
      [] expr.k = "Tuple" -> UNION {NamesIn(expr.elts[i]) : i \in DOMAIN expr.elts}
      [] expr.k = "ListComp" -> NamesIn(expr.elt) \cup NamesIn(expr.iter)
      [] expr.k = "Match" ->
             UNION ( {NamesIn(expr.args[i]) : i \in DOMAIN expr.args}
                     \cup {NamesIn(expr.keys[i]) : i \in DOMAIN expr.keys}
                     \cup {NamesIn(expr.values[i]) : i \in DOMAIN expr.values} )
      [] OTHER -> {}

LambdaArgNames(m) == {m.lambda_args[n] : n \in DOMAIN m.lambda_args}

(* Some branch of the match expression refers in its result to a lambda    *)
(* argument that none of its own patterns holds.                           *)
RefersToArgumentOutsideItsPatterns(m) ==
    \E i \in DOMAIN m.keys :
        (LambdaArgNames(m) \cap NamesIn(m.values[i])) \ NamesIn(m.keys[i]) # {}

(* This step of the 2nd pass elaborates a return statement of a function   *)
(* body, last_stmt' , whose value is a match expression.                   *)
ReturnsMatch ==
    /\ phase = "body"
    /\ ~cur.finished
    /\ last_stmt' # last_stmt
    /\ last_stmt'.ast.k = "Return"
    /\ last_stmt'.ast.value.k = "Match"

(* This step of the 2nd pass elaborates a top-level assertion, module[pos], *)
(* on a match expression.                                                  *)
AssertsMatch ==
    /\ phase = "pass2"
    /\ pos <= Len(module)
    /\ module[pos].k = "Assert"
    /\ module[pos].test.k = "Match"

(* C14: a match expression one of whose branches refers in its result      *)
(* (at any depth, nested match expressions and comprehensions included) to *)
(* a lambda argument that is in none of the patterns of that branch is     *)
(* refused with a CompilationError, wherever the expression stands.        *)
C14_AsStated ==
    [][/\ (ReturnsMatch /\ RefersToArgumentOutsideItsPatterns(last_stmt'.ast.value))
          => (phase' = "error" /\ error'.k = "CompilationError")
       /\ (AssertsMatch /\ RefersToArgumentOutsideItsPatterns(module[pos].test))
          => (phase' = "error" /\ error'.k = "CompilationError")]_vars

(* C14, in function bodies: such a match expression in a return statement  *)
(* of a function is refused with a CompilationError.                       *)
C14_RefusedInFunctionBodies ==
    [][(ReturnsMatch /\ RefersToArgumentOutsideItsPatterns(last_stmt'.ast.value))
       => (phase' = "error" /\ error'.k = "CompilationError")]_vars

(* C14 happens: the top-level assertion on                                 *)
(* match(Type('int'))(lambda a, b: {a: b}), whose result b is in no        *)
(* pattern of its branch, stopped the 2nd pass with an AssertionError.     *)
C14_Witness ==
    /\ phase = "error"
    /\ cur = NoneV
    /\ pos \in 1..Len(module)
    /\ module[pos] = AssertStmt(Match(<<TypeLiteral("int")>>, <<"a", "b">>, <<Name("a")>>, <<Name("b")>>))
    /\ RefersToArgumentOutsideItsPatterns(module[pos].test)
    /\ error.k = "AssertionError"

(* C14 happens in a function: the branch `b: a` of                         *)
(* `return match(T)(lambda a, b: {a: a, b: a})` is refused at its result   *)
(* although the first branch has a in its pattern.                         *)
C14_WitnessInFunction ==
    /\ phase = "error"
    /\ cur # NoneV
    /\ last_stmt # NoneV
    /\ last_stmt.pass = 2
    /\ last_stmt.ast = Return(Match(<<Name("T")>>, <<"a", "b">>, <<Name("a"), Name("b")>>, <<Name("a"), Name("a")>>))
    /\ error.k = "CompilationError"
    /\ error.msg = UsedInResultOnly("a")
    /\ error.node = last_stmt.node \o <<0, 2, 1>>

-----------------------------------------------------------------------------
(* The lambda arguments of the match expression that none of the patterns  *)
(* of its branches holds.                                                  *)
ArgumentsInNoPattern(m) ==
    LambdaArgNames(m) \ UNION {NamesIn(m.keys[i]) : i \in DOMAIN m.keys}

(* The last of them, in the order of the lambda's argument list.           *)
LastArgumentInNoPattern(m) ==
    m.lambda_args[CHOOSE n \in DOMAIN m.lambda_args :
                      /\ m.lambda_args[n] \in ArgumentsInNoPattern(m)
                      /\ \A later \in DOMAIN m.lambda_args :
                            later > n => m.lambda_args[later] \notin ArgumentsInNoPattern(m)]

(* Nothing is raised by the elaboration of the match expression m of the   *)
(* statement at loc before the loop over its branches ends.                *)
ReachesEndOfBranches(m, loc, scopes, g) ==
    /\ m.args # <<>>
    /\ m.keys # <<>>
    /\ g.fn # ""
    /\ MatchedExprs(m.args, 1, loc, scopes, g, FALSE, {}).err = NoneV
    /\ \A lambda_body \in {LambdaArguments(m.lambda_args, 1, loc, scopes \o <<EmptyTable>>, g)} :
          /\ lambda_body.err = NoneV
          /\ MatchBranches(m, 1, loc, lambda_body.scopes, g, FALSE, {},
                 [unused |-> LambdaArgNames(m), last_type |-> NoneV, main_definition |-> FALSE]).err = NoneV

(* The step refuses the match expression because of the lambda argument p  *)
(* that no pattern holds.                                                  *)
RefusedAsUnused(p) ==
    /\ phase' = "error"
    /\ error'.k = "CompilationError"
    /\ Len(error'.msg) >= 3
    /\ error'.msg[1] = "The lambda argument "
    /\ error'.msg[2] = p
    /\ error'.msg[3] = " was not used in any pattern, it should be removed."

(* C15 as stated: a match expression with a lambda argument that is in no  *)
(* pattern of any branch is refused with the CompilationError 'The lambda  *)
(* argument <p> was not used in any pattern', p one of its arguments.      *)
C15_AsStated ==
    [][/\ (ReturnsMatch /\ ArgumentsInNoPattern(last_stmt'.ast.value) # {})
          => \E p \in LambdaArgNames(last_stmt'.ast.value) : RefusedAsUnused(p)
       /\ (AssertsMatch /\ ArgumentsInNoPattern(module[pos].test) # {})
          => \E p \in LambdaArgNames(module[pos].test) : RefusedAsUnused(p)]_vars

(* C15: a match expression with a lambda argument that is in no pattern of *)
(* any branch is never elaborated successfully; when it stands in a        *)
(* reachable statement of a function body and nothing is raised before the *)
(* loop over its branches ends, it is refused with the CompilationError    *)
(* 'The lambda argument <p> was not used in any pattern, it should be      *)
(* removed.' located at the lambda argument p, the last argument of the    *)
(* lambda that is in no pattern.                                           *)
C15_UnusedLambdaArgument ==
    [][/\ (ReturnsMatch /\ ArgumentsInNoPattern(last_stmt'.ast.value) # {})
          => /\ phase' = "error"
             /\ ( /\ ~(cur.ls.nstmts > 0 /\ cur.ls.last_returns)
                  /\ ReachesEndOfBranches(last_stmt'.ast.value, last_stmt'.node \o <<0>>,
                                          <<symbol_table, cur.ls.scope>>, Shared(cur.name)) )
                => /\ RefusedAsUnused(LastArgumentInNoPattern(last_stmt'.ast.value))
                   /\ Len(error'.msg) = 3
                   /\ \E n \in DOMAIN last_stmt'.ast.value.lambda_args :
                         /\ last_stmt'.ast.value.lambda_args[n] = LastArgumentInNoPattern(last_stmt'.ast.value)
                         /\ error'.node = last_stmt'.node \o <<0, 0, 0, n>>
       /\ (AssertsMatch /\ ArgumentsInNoPattern(module[pos].test) # {})
          => phase' = "error"]_vars

(* C15 happens: in def f(T: Type, l: List[Type]), the statement            *)
(* `return match(T)(lambda a, b: {T: 1})`, where neither a nor b is in a   *)
(* pattern, was refused with the error that names b.                       *)
C15_Witness ==
    /\ phase = "error"
    /\ cur # NoneV
    /\ last_stmt # NoneV
    /\ last_stmt.pass = 2
    /\ last_stmt.ast = Return(Match(<<Name("T")>>, <<"a", "b">>, <<Name("T")>>, <<Num(1)>>))
    /\ ArgumentsInNoPattern(last_stmt.ast.value) = {"a", "b"}
    /\ error.k = "CompilationError"
    /\ Join(error.msg) = "The lambda argument b was not used in any pattern, it should be removed."
    /\ error.node = last_stmt.node \o <<0, 0, 0, 2>>

-----------------------------------------------------------------------------
(* Headers whose template bodies hold flagged instantiations of a template *)
(* Box with one constant argument of kind bool, int64 or type.             *)
Box(kind) == AtomicTypeLiteral("Box", FALSE, FALSE, TemplateType(<<ExprType(kind)>>))

ConstantArgs == {Literal(TRUE), Literal(1), IntTypeLiteral}

Select1stBodyElems ==
    {Typedef("type", TemplateInstantiation(Box(a.type.kind), <<a>>, flagged)) :
        a \in ConstantArgs, flagged \in BOOLEAN}
    \cup {StaticAssert(Literal(TRUE), "msg")}
    \cup NestedTemplateDefns

Select1stHeaders ==
    {Header(<<template_defn>>, <<>>, {"Outer"}) :
        template_defn \in TemplateDefnsOver(EmitParamLists, Select1stBodyElems, MaxBodyElems)}
    \cup {Header(<<MainTemplateDefn("Outer", <<TemplateArgDecl(ExprType("VARIADIC_TYPE"), "Ts")>>, <<elem>>),
                   SpecializedTemplateDefn("Other", <<>>, <<>>)>>,
                 <<StaticAssert(Literal(TRUE), "msg")>>, {"Outer", "Other"}) :
            elem \in Select1stBodyElems}

InitSelect1st == ElabInit /\ EmitInit(Select1stHeaders)

SpecSelect1st == InitSelect1st /\ [][NextEmit]_vars

(* The word for a kind in the names of the Select1st* templates of         *)
(* tmppy.h, a variadic type counting as a type.                            *)
KindWord(kind) ==
    CASE kind = "BOOL" -> "Bool"
      [] kind = "INT64" -> "Int64"
      [] kind \in {"TYPE", "VARIADIC_TYPE"} -> "Type"

Select1stHelpers == {"Select1st" \o x \o y : x \in {"Bool", "Int64", "Type"}, y \in {"Bool", "Int64", "Type"}}

ConstantText(a) ==
    CASE a = Literal(TRUE) -> "true"
      [] a = Literal(1) -> "1LL"
      [] a = IntTypeLiteral -> "int"

(* using type = Box<arg>, with the constant a wrapped in wrapper<a, param>.*)
GuardedBox(wrapper, a, param) ==
    UsingType("Box<" \o (IF a.type.kind = "TYPE" THEN "typename " ELSE "")
              \o wrapper \o "<" \o ConstantText(a) \o ", " \o param \o ">::value>")

(* The next step of run r emits the typedef of a flagged instantiation of  *)
(* Box in a specialization with parameters, the first of which that is not *)
(* a template has the index i.                                             *)
AtFlaggedBox(r, i) ==
    /\ InFrame(r)
    /\ TopFrame(r).j >= 1
    /\ TopFrame(r).j <= Len(TopFrame(r).specs[TopFrame(r).k].body)
    /\ \E a \in ConstantArgs :
          TopFrame(r).specs[TopFrame(r).k].body[TopFrame(r).j]
             = Typedef("type", TemplateInstantiation(Box(a.type.kind), <<a>>, TRUE))
    /\ i \in DOMAIN TopFrame(r).specs[TopFrame(r).k].args
    /\ TopFrame(r).specs[TopFrame(r).k].args[i].type.kind # "TEMPLATE"
    /\ \A h \in 1..(i - 1) : TopFrame(r).specs[TopFrame(r).k].args[h].type.kind = "TEMPLATE"

(* C16: a flagged instantiation whose constant argument and whose chosen   *)
(* enclosing parameter are not templates is emitted with its argument      *)
(* wrapped in Select1st<X><Y>, X the word for the kind of the argument and *)
(* Y the one for the kind of the parameter (Type for a variadic type),     *)
(* which is one of the nine helpers of the runtime header.                 *)
C16_AsStated ==
    [][\A i \in 1..2 : AtFlaggedBox(1, i) =>
          \E a \in ConstantArgs :
             /\ TopFrame(1).specs[TopFrame(1).k].body[TopFrame(1).j].expr.args = <<a>>
             /\ \A param \in {TopFrame(1).specs[TopFrame(1).k].args[i]} :
                  /\ "Select1st" \o KindWord(a.type.kind) \o KindWord(param.type.kind) \in Select1stHelpers
                  /\ emit'[1].pc = "running"
                  /\ emit'[1].stack[Len(emit[1].stack)].strings
                       = Append(TopFrame(1).strings,
                                GuardedBox("Select1st" \o KindWord(a.type.kind) \o KindWord(param.type.kind),
                                           a, param.name))]_vars

(* C16 happens: in a template whose parameter is the variadic type Ts, the *)
(* flagged Box<1> was emitted with the wrapper Select1stInt64TypeType,     *)
(* which is none of the nine helpers.                                      *)
C16_Witness ==
    /\ InFrame(1)
    /\ TopFrame(1).j = 2
    /\ TopFrame(1).specs[TopFrame(1).k].args = <<TemplateArgDecl(ExprType("VARIADIC_TYPE"), "Ts")>>
    /\ TopFrame(1).specs[TopFrame(1).k].body[1] = Typedef("type", TemplateInstantiation(Box("INT64"), <<Literal(1)>>, TRUE))
    /\ TopFrame(1).strings = <<GuardedBox("Select1stInt64TypeType", Literal(1), "Ts")>>
    /\ "Select1stInt64TypeType" \notin Select1stHelpers

-----------------------------------------------------------------------------
(* Modules of top-level assertions with a message: the text of the message *)
(* of each elaborated assertion.                                           *)
MaxMessageLen == 2

MaxAsserts == 1

MessageChars == {"a", Backslash, DoubleQuote, Newline}

MessageTexts == UNION { [1..n -> MessageChars] : n \in 0..MaxMessageLen }

(* The Python string literal, between quote characters, that evaluates to s. *)
StrLiteral(s, quote) ==
    <<quote>>
    \o replace(replace(replace(s, Backslash, <<Backslash, Backslash>>),
                       quote, <<Backslash, quote>>),
               Newline, <<Backslash, "n">>)
    \o <<quote>>

(* assert True, <literal of s>                                             *)
AssertWithMessage(s, quote) ==
    [k |-> "Assert", test |-> NameConstant(TRUE), msg |-> [k |-> "Str", s |-> s],
     line |-> <<"assert True, ">> \o StrLiteral(s, quote)]

AssertItems ==
    { AssertWithMessage(s, quote) : s \in MessageTexts, quote \in {"'", DoubleQuote} }
    \cup { AssertStmt(NameConstant(TRUE)) }

NextAssert ==
    \/ Pass1Item(AssertItems, MaxAsserts) /\ UNCHANGED ir0Vars
    \/ EndPass1 /\ UNCHANGED ir0Vars
    \/ ToplevelAssert /\ UNCHANGED ir0Vars
    \/ Finish /\ UNCHANGED ir0Vars

SpecAssert == Init /\ [][NextAssert]_vars

(* text[j] is a double-quote that no backslash precedes.                   *)
UnescapedDoubleQuote(text, j) ==
    /\ text[j] = DoubleQuote
    /\ (j = 1 \/ text[j - 1] # Backslash)

(* C17 as stated: the message of every elaborated assertion holds no       *)
(* double-quote that is not preceded by a backslash and no raw newline.    *)
C17_AsStated ==
    \A i \in DOMAIN assertions :
        \A j \in DOMAIN assertions[i] :
            /\ assertions[i][j] # Newline
            /\ ~UnescapedDoubleQuote(assertions[i], j)

(* What the three replacements do achieve: the message of every elaborated *)
(* assertion holds no raw newline, and each of its backslashes is next to  *)
(* another backslash or before the n of an escaped newline.                *)
C17_NewlinesAndBackslashesEscaped ==
    \A i \in DOMAIN assertions :
        \A j \in DOMAIN assertions[i] :
            /\ assertions[i][j] # Newline
            /\ assertions[i][j] = Backslash =>
                   \/ j > 1 /\ assertions[i][j - 1] = Backslash
                   \/ j < Len(assertions[i]) /\ assertions[i][j + 1] \in {Backslash, "n"}

(* The assertion `assert True, 'a"'` on line 1 has been elaborated: the    *)
(* newline of the message is escaped, its double-quote is not.             *)
C17_Witness ==
    /\ module = <<AssertWithMessage(<<"a", DoubleQuote>>, "'")>>
    /\ assertions = << <<"TMPPy assertion failed: ", "a", DoubleQuote, Backslash, "n",
                         Filename, ":", "1", ": ",
                         "assert True, ", "'", "a", DoubleQuote, "'">> >>
    /\ UnescapedDoubleQuote(assertions[1], 3)

-----------------------------------------------------------------------------
(* Modules of class definitions: the parameters of __init__.               *)
ParamLists ==
    LET Params == { arg(name, annotation) : name \in {"x", "y"},
                                            annotation \in {NoneV, Name("bool"), Name("int")} }
    IN { <<p>> : p \in Params } \cup { <<p, q>> : p \in Params, q \in Params }

(* class name: def __init__(self, params): one self.<p> = <p> per name.    *)
ClassDef(name, params) ==
    [k |-> "ClassDef", name |-> name, bases |-> <<>>,
     body |-> <<[k |-> "FunctionDef", name |-> "__init__",
                 args |-> <<arg("self", NoneV)>> \o params,
                 body |-> IF Len(params) = 2 /\ params[1].arg = params[2].arg
                          THEN <<[k |-> "SelfAssign", attr |-> params[1].arg, value |-> Name(params[1].arg)]>>
                          ELSE [i \in 1..Len(params) |->
                                  [k |-> "SelfAssign", attr |-> params[i].arg, value |-> Name(params[i].arg)]]]>>]

ClassItems == { ClassDef(name, params) : name \in {"C", "D"}, params \in ParamLists }

NextClass ==
    \/ Pass1Item(ClassItems, MaxItems) /\ UNCHANGED ir0Vars
    \/ EndPass1 /\ UNCHANGED ir0Vars
    \/ SkipItem /\ UNCHANGED ir0Vars
    \/ Finish /\ UNCHANGED ir0Vars

SpecClass == Init /\ [][NextClass]_vars

(* The parameters of __init__ other than self, of a class definition.      *)
InitParams(class) == SubSeq(class.body[1].args, 2, Len(class.body[1].args))

MustHaveAnnotation == "All arguments of __init__ (except \"self\") must have a type annotation."

(* The class definition just read in the first pass made it fail with the  *)
(* CompilationError of an argument without annotation.                     *)
RefusedForAnnotation ==
    /\ phase' = "error"
    /\ error'.k = "CompilationError"
    /\ error'.msg = <<MustHaveAnnotation>>

(* C18 as stated: a class whose __init__ has a parameter other than self   *)
(* without annotation, at any position, is refused with the error 'All     *)
(* arguments of __init__ (except "self") must have a type annotation.',    *)
(* and a class with two parameters of the same name is refused with a      *)
(* CompilationError.                                                       *)
C18_AsStated ==
    [][\A c \in ClassItems :
          (phase = "pass1" /\ module' = Append(module, c)) =>
              LET params == InitParams(c) IN
              /\ (\E i \in DOMAIN params : params[i].annotation = NoneV) => RefusedForAnnotation
              /\ (\E i, j \in DOMAIN params : i < j /\ params[i].arg = params[j].arg) =>
                     (phase' = "error" /\ error'.k = "CompilationError")]_vars

(* The part that holds: a class whose first parameter after self has no    *)
(* annotation is refused with that error, and two parameters of the same   *)
(* name are refused when the first parameter after self is annotated.      *)
C18_FirstParameter ==
    [][\A c \in ClassItems :
          (phase = "pass1" /\ module' = Append(module, c)) =>
              LET params == InitParams(c) IN
              /\ params[1].annotation = NoneV => RefusedForAnnotation
              /\ (params[1].annotation # NoneV /\ Len(params) = 2 /\ params[1].arg = params[2].arg) =>
                     (/\ phase' = "error"
                      /\ error'.k = "CompilationError"
                      /\ error'.msg = <<"Found multiple arguments with name \"", params[1].arg, "\".">>)]_vars

(* `class C: def __init__(self, x: bool, y)` has been read: the failure is *)
(* an AttributeError at the annotation of y.                               *)
C18_Witness ==
    /\ module = <<ClassDef("C", <<arg("x", Name("bool")), arg("y", NoneV)>>)>>
    /\ phase = "error"
    /\ error = AttributeError(<<1, 1, 0, 3, 0>>)

-----------------------------------------------------------------------------
(* A function that assigns and returns integer literals at and around the  *)
(* bounds of the supported range.                                          *)
LiteralMagnitudes ==
    { <<0, 0, 0, 0>>, <<0, 0, 0, 1>>, <<0, 0, 1, 0>>, <<0, 1, 0, 0>>,
      <<0, MaxDigit, MaxDigit, MaxDigit - 1>>,
      <<0, MaxDigit, MaxDigit, MaxDigit>>,
      <<1, 0, 0, 0>>, <<1, 0, 0, 1>>, <<1, MaxDigit, MaxDigit, MaxDigit>> }

NumLiterals ==
    { NumOf(PyInt(FALSE, mag)) : mag \in LiteralMagnitudes }
    \cup { NumOf([py |-> "float"]), NumOf([py |-> "complex"]) }

LiteralExprs == NumLiterals \cup { USub(e) : e \in NumLiterals }

LiteralItems == { FunctionDef("f", <<arg("b", Name("bool"))>>, Name("int")) }

LiteralStmts == { Return(e) : e \in LiteralExprs } \cup { Assign("x", e) : e \in LiteralExprs }

NextLiteral ==
    \/ Pass1Item(LiteralItems, MaxItems) /\ UNCHANGED ir0Vars
    \/ EndPass1 /\ UNCHANGED ir0Vars
    \/ BeginFunction /\ UNCHANGED ir0Vars
    \/ ElabStmt(LiteralStmts, MaxBodyLen) /\ UNCHANGED ir0Vars
    \/ EndFunction /\ UNCHANGED ir0Vars
    \/ Finish /\ UNCHANGED ir0Vars

SpecLiteral == Init /\ [][NextLiteral]_vars

(* The value n of a literal: that of the ast.Num, negated under a minus.   *)
ValueOf(e) == IF e.k = "Num" THEN e.n ELSE IntNeg(e.operand.n)

IsIntLiteral(e) == (IF e.k = "Num" THEN e.n ELSE e.operand.n).py = "int"

(* This step elaborates a statement whose expression is an int literal;   *)
(* the statement is reached, no return statement precedes it.              *)
ElaboratesIntLiteral ==
    /\ phase = "body"
    /\ last_stmt' # last_stmt
    /\ ~cur.ls.last_returns
    /\ IsIntLiteral(last_stmt'.ast.value)

OutOfBounds ==
    { "int value out of bounds: values lower than -2^63+1 are not supported.",
      "int value out of bounds: values greater than 2^63-1 are not supported." }

RefusedAsOutOfBounds ==
    /\ phase' = "error"
    /\ error'.k = "CompilationError"
    /\ \E msg \in OutOfBounds : error'.msg = <<msg>>

(* C19 as stated: the literal of value n is refused with an 'int value out *)
(* of bounds' CompilationError exactly if not -(2^63-1) < n < 2^63-1.      *)
C19_AsStated ==
    [][ElaboratesIntLiteral =>
          LET n == ValueOf(last_stmt'.ast.value) IN
          RefusedAsOutOfBounds <=> ~(IntLess(IntNeg(TwoTo63Minus1), n) /\ IntLess(n, TwoTo63Minus1))]_vars

(* C19: the literal of value n, with or without a unary minus, is refused  *)
(* with an 'int value out of bounds' CompilationError exactly if not       *)
(* -(2^63-1) <= n <= 2^63-1: the two bounds themselves are accepted.       *)
C19_IntLiteralRange ==
    [][ElaboratesIntLiteral =>
          LET n == ValueOf(last_stmt'.ast.value) IN
          RefusedAsOutOfBounds <=> ~(IntLessEq(IntNeg(TwoTo63Minus1), n) /\ IntLessEq(n, TwoTo63Minus1))]_vars

(* `return 9223372036854775807` has been elaborated in f without an error. *)
C19_Witness ==
    /\ phase = "body"
    /\ last_stmt # NoneV
    /\ last_stmt.pass = 2
    /\ last_stmt.ast = Return(NumOf(TwoTo63Minus1))
    /\ cur # NoneV
    /\ cur.ls.nstmts = 1

-----------------------------------------------------------------------------
(* Two classes and a function that returns the comparison, with == or !=,  *)
(* of two of its parameters or of the constructor C.                       *)
Compare(left, op, right) == [k |-> "Compare", left |-> left, op |-> op, right |-> right]

EqParams ==
    <<arg("b", Name("bool")), arg("i", Name("int")), arg("t", Name("Type")),
      arg("li", Subscript("List", Name("int"))),
      arg("lb", Subscript("List", Name("bool"))),
      arg("si", Subscript("Set", Name("int"))),
      arg("sli", Subscript("Set", Subscript("List", Name("int")))),
      arg("ssi", Subscript("Set", Subscript("Set", Name("int")))),
      arg("lsi", Subscript("List", Subscript("Set", Name("int")))),
      arg("c", Name("C")), arg("s", Name("S")),
      arg("lc", Subscript("List", Name("C"))),
      arg("sc", Subscript("Set", Name("C"))),
      arg("ss", Subscript("Set", Name("S")))>>

EqItems ==
    { ClassDef("C", <<arg("x", Name("bool")), arg("y", Subscript("List", Name("int")))>>),
      ClassDef("S", <<arg("x", Name("bool")), arg("y", Subscript("Set", Name("int")))>>),
      FunctionDef("f", EqParams, Name("bool")) }

EqOperands == { Name(EqParams[i].arg) : i \in DOMAIN EqParams } \cup { Name("C") }

EqStmts == { Return(Compare(lhs, op, rhs)) : lhs \in EqOperands, rhs \in EqOperands,
                                             op \in {"Eq", "NotEq"} }

NextEq ==
    \/ Pass1Item(EqItems, MaxItems) /\ UNCHANGED ir0Vars
    \/ EndPass1 /\ UNCHANGED ir0Vars
    \/ BeginFunction /\ UNCHANGED ir0Vars
    \/ ElabStmt(EqStmts, MaxBodyLen) /\ UNCHANGED ir0Vars
    \/ EndFunction /\ UNCHANGED ir0Vars
    \/ SkipItem /\ UNCHANGED ir0Vars
    \/ Finish /\ UNCHANGED ir0Vars

SpecEq == Init /\ [][NextEq]_vars

(* The rule of C20.  A type is structurally supported if it is Bool, Int   *)
(* or TypeRef, a List of a structurally supported type, or a Custom type   *)
(* whose fields all are; a Set or a Function never is.                     *)
RECURSIVE StructurallySupported(_)
StructurallySupported(type) ==
    \/ type \in {BoolType, IntType, TypeType}
    \/ type.k = "List" /\ StructurallySupported(type.elem_type)
    \/ /\ type.k = "Custom"
       /\ \A i \in DOMAIN type.arg_types : StructurallySupported(type.arg_types[i].type)

(* A type supports == and != if it is structurally supported or a Set of a *)
(* structurally supported type.                                            *)
SupportsEquality(type) ==
    \/ StructurallySupported(type)
    \/ type.k = "Set" /\ StructurallySupported(type.elem_type)

(* The type of an operand of the comparison that this step elaborates.     *)
OperandType(name) == get_symbol_definition(<<symbol_table, cur.ls.scope>>, name.id).symbol.type

(* This step elaborates `return lhs == rhs` or `return lhs != rhs` as the  *)
(* first statement of f.                                                   *)
ElaboratesComparison ==
    /\ phase = "body"
    /\ last_stmt' # last_stmt
    /\ cur.ls.nstmts = 0
    /\ last_stmt'.ast.value.k = "Compare"

RefusedComparison ==
    /\ phase' = "error"
    /\ error'.k = "CompilationError"
    /\ error'.msg[1] \in {"Type mismatch in ", "Type not supported in equality comparison: "}

(* C20: == and != on two operands are accepted exactly when the operands   *)
(* have the same type T and T is Bool, Int or TypeRef, a List or a Set of  *)
(* a structurally supported type, or a Custom type whose fields are all    *)
(* structurally supported; otherwise the comparison is refused with a      *)
(* CompilationError.                                                       *)
C20_EqualitySupport ==
    [][ElaboratesComparison =>
          LET lhs_type == OperandType(last_stmt'.ast.value.left)
              rhs_type == OperandType(last_stmt'.ast.value.right)
          IN IF lhs_type = rhs_type /\ SupportsEquality(lhs_type)
             THEN phase' = "body" /\ cur'.ls.nstmts = 1
             ELSE RefusedComparison]_vars

(* `return sli == sli`, two operands of type Set[List[int]], has been      *)
(* elaborated in f without an error.                                       *)
C20_Witness ==
    /\ phase = "body"
    /\ last_stmt # NoneV
    /\ last_stmt.pass = 2
    /\ last_stmt.ast = Return(Compare(Name("sli"), "Eq", Name("sli")))
    /\ cur # NoneV
    /\ cur.ls.nstmts = 1
    /\ cur.ls.scope["sli"].type = SetType(ListType(IntType))

(* `return ssi != ssi`, two operands of type Set[Set[int]], has been       *)
(* refused.                                                                *)
C20_WitnessRefused ==
    /\ phase = "error"
    /\ last_stmt # NoneV
    /\ last_stmt.pass = 2
    /\ last_stmt.ast = Return(Compare(Name("ssi"), "NotEq", Name("ssi")))
    /\ error = CompilationError(<<3, 1, 0, 0>>, <<"Type not supported in equality comparison: ", "Set">>, <<>>)

-----------------------------------------------------------------------------
(* Function bodies with try statements at the level of the function and    *)
(* inside if branches, else branches, try bodies and except handlers.      *)
InnerTry == Try(<<Assign("y", Num(1))>>, <<ExceptHandler(Name("E"), "e", <<Assign("z", Num(1))>>)>>)

TryBlocks ==
    { <<Assign("x", Num(1))>>,
      <<Return(Num(1))>>,
      <<InnerTry>>,
      <<Assign("x", Num(1)), InnerTry>>,
      <<Return(Num(1)), InnerTry>>,
      <<If(Name("b"), <<InnerTry>>, <<>>)>>,
      <<If(Name("b"), <<Assign("x", Num(1))>>, <<InnerTry>>)>> }

TryStmts ==
    { If(Name("b"), body, orelse) : body \in TryBlocks, orelse \in TryBlocks \cup {<<>>} }
    \cup { Try(body, <<ExceptHandler(Name("E"), "e", handler)>>) :
               body \in TryBlocks, handler \in TryBlocks }
    \cup { Assign("w", Num(1)), Return(Num(1)) }

NextTry ==
    \/ Pass1Item(BranchItems, MaxItems) /\ UNCHANGED ir0Vars
    \/ EndPass1 /\ UNCHANGED ir0Vars
    \/ BeginFunction /\ UNCHANGED ir0Vars
    \/ ElabStmt(TryStmts, MaxBodyLen) /\ UNCHANGED ir0Vars
    \/ EndFunction /\ UNCHANGED ir0Vars
    \/ SkipItem /\ UNCHANGED ir0Vars
    \/ Finish /\ UNCHANGED ir0Vars

SpecTry == Init /\ [][NextTry]_vars

(* The blocks of a statement: the branches of an if, the body and the      *)
(* handler of a try.                                                       *)
BlocksOf(stmt) ==
    CASE stmt.k = "If" -> {stmt.body, stmt.orelse}
      [] stmt.k = "Try" -> {stmt.body} \cup {stmt.handlers[i].body : i \in DOMAIN stmt.handlers}
      [] OTHER -> {}

(* A try statement stands somewhere inside a block of stmt.                *)
RECURSIVE HasNestedTry(_)
HasNestedTry(stmt) ==
    \E block \in BlocksOf(stmt) : \E i \in DOMAIN block :
        block[i].k = "Try" \/ HasNestedTry(block[i])

OnlyAtToplevel ==
    "try-except blocks are only supported at top-level in functions (not e.g. inside if-else statements)."

(* This step elaborates a statement of the body of a function.             *)
ElaboratesStatement ==
    /\ phase = "body"
    /\ last_stmt' # last_stmt

(* C21: a statement of a function body that holds a try statement inside   *)
(* an if or else branch, a try body or an except handler makes the         *)
(* elaboration fail with a CompilationError; when that try statement is    *)
(* the first statement of the first block of a reached statement, the      *)
(* error is the one of try_stmt_ast_to_ir3, at the inner try.              *)
C21_TryOnlyInFunctionBody ==
    [][ElaboratesStatement =>
          LET stmt == last_stmt'.ast IN
          /\ HasNestedTry(stmt) => (phase' = "error" /\ error'.k = "CompilationError")
          /\ (/\ stmt.k \in {"If", "Try"}
              /\ stmt.body[1].k = "Try"
              /\ ~cur.ls.last_returns) =>
                 error' = CompilationError(last_stmt'.node \o <<1, 1>>, <<OnlyAtToplevel>>, <<>>)]_vars

(* `if b: try: ... except E as e: ...` has been refused in the body of f.  *)
C21_Witness ==
    /\ phase = "error"
    /\ last_stmt # NoneV
    /\ last_stmt.pass = 2
    /\ last_stmt.ast = If(Name("b"), <<InnerTry>>, <<>>)
    /\ error = CompilationError(last_stmt.node \o <<1, 1>>, <<OnlyAtToplevel>>, <<>>)

(* A try statement has been elaborated as a statement of the body of f.    *)
C21_WitnessInFunctionBody ==
    /\ phase = "body"
    /\ last_stmt # NoneV
    /\ last_stmt.pass = 2
    /\ last_stmt.ast = Try(<<Assign("x", Num(1))>>, <<ExceptHandler(Name("E"), "e", <<Return(Num(1))>>)>>)
    /\ cur # NoneV
    /\ last_stmt.node = <<pos, cur.ls.nstmts>>

-----------------------------------------------------------------------------
(* Function bodies of asserts, returns, raises, ifs and try statements in  *)
(* which statements follow statements that always return.                  *)
ReachBlocks ==
    LET A == AssertStmt(Name("b"))
        R == Return(Num(1))
        X == RaiseStmt(Call(Name("E"), <<Name("b")>>))
    IN { <<A>>, <<R>>, <<X>>, <<A, R>>, <<R, A>>, <<R, R>>, <<X, A>>, <<A, A>>,
         <<If(Name("b"), <<R>>, <<R>>), A>>,
         <<If(Name("b"), <<R>>, <<>>), A>>,
         <<If(Name("b"), <<R, A>>, <<R>>)>>,
         <<If(Name("b"), <<R>>, <<X>>), R>> }

ReachStmts ==
    { If(Name("b"), body, orelse) : body \in ReachBlocks, orelse \in ReachBlocks \cup {<<>>} }
    \cup { Try(body, <<ExceptHandler(Name("E"), "e", handler)>>) :
               body \in ReachBlocks, handler \in ReachBlocks }
    \cup { AssertStmt(Name("b")), Return(Num(1)), RaiseStmt(Call(Name("E"), <<Name("b")>>)) }

NextReach ==
    \/ Pass1Item(BranchItems, MaxItems) /\ UNCHANGED ir0Vars
    \/ EndPass1 /\ UNCHANGED ir0Vars
    \/ BeginFunction /\ UNCHANGED ir0Vars
    \/ ElabStmt(ReachStmts, MaxBodyLen) /\ UNCHANGED ir0Vars
    \/ EndFunction /\ UNCHANGED ir0Vars
    \/ SkipItem /\ UNCHANGED ir0Vars
    \/ Finish /\ UNCHANGED ir0Vars

SpecReach == Init /\ [][NextReach]_vars

(* The rule of C22: a return and a raise always return, an if or a try     *)
(* does when all its branches do (an if without else has a branch that     *)
(* does not), a block does when its last statement does.                   *)
RECURSIVE StatementAlwaysReturns(_)
StatementAlwaysReturns(stmt) ==
    LET BlockAlwaysReturnsToo(block) == block # <<>> /\ StatementAlwaysReturns(block[Len(block)])
    IN CASE stmt.k \in {"Return", "Raise"} -> TRUE
         [] stmt.k = "If" -> BlockAlwaysReturnsToo(stmt.body) /\ BlockAlwaysReturnsToo(stmt.orelse)
         [] stmt.k = "Try" -> BlockAlwaysReturnsToo(stmt.body) /\ BlockAlwaysReturnsToo(stmt.handlers[1].body)
         [] OTHER -> FALSE

(* The first statement, in source order from the i-th statement of the     *)
(* block at loc on, that follows a statement of its own block that always  *)
(* returns: its node, or NoneV.                                            *)
RECURSIVE FirstUnreachable(_, _, _)
FirstUnreachable(block, i, loc) ==
    IF i > Len(block) THEN NoneV
    ELSE IF i > 1 /\ StatementAlwaysReturns(block[i - 1]) THEN loc \o <<i>>
    ELSE LET stmt == block[i]
             first == IF stmt.k \in {"If", "Try"}
                      THEN FirstUnreachable(stmt.body, 1, loc \o <<i, 1>>) ELSE NoneV
             second == CASE stmt.k = "If" -> FirstUnreachable(stmt.orelse, 1, loc \o <<i, 2>>)
                         [] stmt.k = "Try" -> FirstUnreachable(stmt.handlers[1].body, 1, loc \o <<i, 2>>)
                         [] OTHER -> NoneV
         IN IF first # NoneV THEN first
            ELSE IF second # NoneV THEN second
            ELSE FirstUnreachable(block, i + 1, loc)

UnreachableStatement(node) == CompilationError(node, <<"Unreachable statement.">>, <<>>)

(* This step elaborates a statement of the body of f; the class E is       *)
(* defined and the name e of the handlers is not bound.                    *)
ElaboratesInReachableBlocks ==
    /\ ElaboratesStatement
    /\ "E" \in DOMAIN symbol_table
    /\ "e" \notin DOMAIN cur.ls.scope

MissingReturn ==
    { <<"Missing return statement.">>,
      <<"Missing return statement. You should add an else branch that returns, or a return after the if.">> }

C22_WitnessAfterIf ==
    /\ phase = "error"
    /\ last_stmt # NoneV
    /\ last_stmt.pass = 2
    /\ last_stmt.node = <<2, 2>>
    /\ cur # NoneV
    /\ cur.ls.nstmts = 1
    /\ cur.ls.last_returns
    /\ cur.ls.first_return_stmt # NoneV
    /\ cur.ls.first_return_stmt.node = <<2, 1, 1, 1>>
    /\ error = UnreachableStatement(<<2, 2>>)

-----------------------------------------------------------------------------
(* Headers with up to two of three template definitions and up to two of   *)
(* three top-level elements, in every order.  The description of each      *)
(* template definition is its name.                                        *)
OrderTemplateDefns ==
    LET T == <<TemplateArgDecl(ExprType("TYPE"), "T")>>
        Inner == MainTemplateDefn("Inner", <<TemplateArgDecl(ExprType("TYPE"), "V")>>,
                                  <<StaticAssert(Literal(TRUE), "inner")>>)
    IN { TemplateDefn(T, TemplateSpecialization(T, NoneV, <<StaticAssert(Literal(TRUE), "msg")>>),
                      <<>>, "A", "A", {"value"}),
         TemplateDefn(T, NoneV,
                      <<TemplateSpecialization(<<>>, [k |-> "tuple", items |-> <<IntTypeLiteral>>],
                                               <<Inner, ConstantDef("value", Literal(1))>>)>>,
                      "B", "B", {"value"}),
         TemplateDefn(T, TemplateSpecialization(T, NoneV, <<Typedef("type", IntTypeLiteral)>>),
                      <<TemplateSpecialization(<<>>, [k |-> "tuple", items |-> <<IntTypeLiteral>>],
                                               <<Typedef("type", IntTypeLiteral)>>)>>,
                      "C", "C", {"type"}) }

OrderToplevelElems ==
    { StaticAssert(Literal(TRUE), "msg"), ConstantDef("value", Literal(-1)),
      Typedef("type", IntTypeLiteral) }

(* The sequences of at most two distinct elements of a set.                *)
UpToTwoOf(S) ==
    {<<>>} \cup { <<x>> : x \in S } \cup { pair \in { <<x, y>> : x \in S, y \in S } : pair[1] # pair[2] }

OrderHeaders ==
    { Header(template_defns, toplevel_content, {"A", "B", "C"}) :
          template_defns \in UpToTwoOf(OrderTemplateDefns),
          toplevel_content \in UpToTwoOf(OrderToplevelElems) }

InitOrder == ElabInit /\ EmitInit(OrderHeaders)

SpecOrder == InitOrder /\ [][NextEmit]_vars

IncludeLines == "        #include <tmppy/tmppy.h>\n        #include <type_traits>\n        "

(* The text of the forward declaration of a template definition, of the    *)
(* comment that precedes each of its specializations, and of a top-level   *)
(* element.                                                                *)
ForwardDeclText(template_defn) ==
    "        template <" \o template_args_to_cpp(template_defn.args)
    \o ">\n        struct " \o template_defn.name \o ";\n        "

DescriptionText(template_defn) == "// " \o template_defn.description \o "\n"

ToplevelText(elem) ==
    elem_to_cpp(elem, <<>>, [top |-> <<>>, elem |-> <<>>, is_top |-> TRUE, gen |-> 0,
                             ids |-> <<>>, exc |-> ""]).w.top[1]

(* The positions of a text in the strings of the top-level writer.         *)
PositionsOf(text) == { p \in DOMAIN emit[1].strings : emit[1].strings[p] = text }

(* C23: the strings of the top-level writer start with the #include lines, *)
(* then hold the forward declaration of each top-level template definition *)
(* in input order, then the text of the template definitions in input      *)
(* order, then the top-level elements in input order: nothing of a         *)
(* template definition precedes a forward declaration, no top-level        *)
(* element precedes anything of a template definition, and the output is   *)
(* their concatenation.                                                    *)
C23_HeaderEmissionOrder ==
    LET strings == emit[1].strings
        defns == header.template_defns
        elems == header.toplevel_content
        n == Len(defns)
        m == Len(elems)
        Declared(i) == PositionsOf(ForwardDeclText(defns[i]))
        Defined(i) == PositionsOf(DescriptionText(defns[i]))
        Written(j) == PositionsOf(ToplevelText(elems[j]))
    IN /\ strings # <<>> => strings[1] = IncludeLines
       /\ PositionsOf(IncludeLines) \subseteq {1}
       /\ \A i \in 1..n :
             /\ Declared(i) \subseteq {i + 1}
             /\ Len(strings) > i => Declared(i) = {i + 1}
             /\ \A p \in Defined(i) :
                   /\ p > n + 1
                   /\ \A h \in 1..(i - 1) : Defined(h) # {} /\ \A q \in Defined(h) : q < p
       /\ \A j \in 1..m :
             \A p \in Written(j) :
                   /\ \A i \in 1..n : Defined(i) # {} /\ \A q \in Defined(i) : q < p
                   /\ \A h \in 1..(j - 1) : Written(h) # {} /\ \A q \in Written(h) : q < p
       /\ emit[1].pc = "done" =>
             /\ emit[1].output = Join(strings)
             /\ \A i \in 1..n : Defined(i) # {}
             /\ \A j \in 1..m : Written(j) = {Len(strings) - m + j}

(* The header of the template definitions B and A and of a constant and a  *)
(* static assert has been emitted: B is declared and defined before A.     *)
C23_Witness ==
    /\ emit # NoneV
    /\ emit[1].pc = "done"
    /\ header # NoneV
    /\ Len(header.template_defns) = 2
    /\ header.template_defns[1].name = "B"
    /\ header.template_defns[2].name = "A"
    /\ header.toplevel_content = <<ConstantDef("value", Literal(-1)), StaticAssert(Literal(TRUE), "msg")>>
    /\ emit[1].strings[2] = ForwardDeclText(header.template_defns[1])
    /\ emit[1].strings[3] = ForwardDeclText(header.template_defns[2])
    /\ PositionsOf(DescriptionText(header.template_defns[2])) = {Len(emit[1].strings) - 3}

-----------------------------------------------------------------------------
(* Functions f with a declared return type or none, whose bodies return    *)
(* integers and booleans at the level of the function, in the branches of  *)
(* ifs, in ifs within those branches, in try bodies and in handlers.       *)
ReturnItems ==
    { ExceptionClassDef("E", <<arg("b", Name("bool"))>>,
                        <<[k |-> "SelfAssign", attr |-> "b", value |-> Name("b")]>>) }
    \cup { FunctionDef("f", <<arg("b", Name("bool"))>>, returns) :
               returns \in {NoneV, Name("int"), Name("bool")} }

Returns == { Return(Num(1)), Return(NameConstant(TRUE)) }

ReturnBlocks == { <<r>> : r \in Returns } \cup { <<AssertStmt(Name("b"))>> }

NestedReturnBlocks ==
    ReturnBlocks
    \cup { <<If(Name("b"), <<Return(Num(1))>>, <<r>>)>> : r \in Returns }

ReturnStmts ==
    Returns
    \cup { AssertStmt(Name("b")), RaiseStmt(Call(Name("E"), <<Name("b")>>)) }
    \cup { If(Name("b"), body, orelse) :
               body \in NestedReturnBlocks, orelse \in NestedReturnBlocks \cup {<<>>} }
    \cup { Try(body, <<ExceptHandler(Name("E"), "e", handler)>>) :
               body \in ReturnBlocks, handler \in ReturnBlocks }

NextReturn ==
    \/ Pass1Item(ReturnItems, MaxItems) /\ UNCHANGED ir0Vars
    \/ EndPass1 /\ UNCHANGED ir0Vars
    \/ BeginFunction /\ UNCHANGED ir0Vars
    \/ ElabStmt(ReturnStmts, MaxBodyLen) /\ UNCHANGED ir0Vars
    \/ EndFunction /\ UNCHANGED ir0Vars
    \/ SkipItem /\ UNCHANGED ir0Vars
    \/ Finish /\ UNCHANGED ir0Vars

SpecReturn == Init /\ [][NextReturn]_vars

(* The type of the expression of a return statement of ReturnStmts. *)
ReturnedType(stmt) == IF stmt.value.k = "Num" THEN IntType ELSE BoolType

(* The return statements of the statement at loc, in source order, each    *)
(* with the type of its expression and its node.                           *)
RECURSIVE ReturnsOfStmt(_, _)
RECURSIVE ReturnsOfBlock(_, _, _)
ReturnsOfStmt(stmt, loc) ==
    CASE stmt.k = "Return" -> <<[type |-> ReturnedType(stmt), node |-> loc]>>
      [] stmt.k = "If" -> ReturnsOfBlock(stmt.body, 1, loc \o <<1>>)
                          \o ReturnsOfBlock(stmt.orelse, 1, loc \o <<2>>)
      [] stmt.k = "Try" -> ReturnsOfBlock(stmt.body, 1, loc \o <<1>>)
                           \o ReturnsOfBlock(stmt.handlers[1].body, 1, loc \o <<2>>)
      [] OTHER -> <<>>

ReturnsOfBlock(block, i, loc) ==
    IF i > Len(block) THEN <<>>
    ELSE ReturnsOfStmt(block[i], loc \o <<i>>) \o ReturnsOfBlock(block, i + 1, loc)

DifferentReturnType(node, type, previous) ==
    CompilationError(node,
        <<"Found return statement with different return type: ", type.k, " instead of ",
          previous.type.k, ".">>,
        <<[node |-> previous.node,
           msg |-> "A previous return statement returning a " \o previous.type.k \o " was here."]>>)

(* This step elaborates a statement of the body of f that the loop gets    *)
(* to; the class E is defined and the name e of the handlers is not bound. *)
ElaboratesReturns ==
    /\ ElaboratesStatement
    /\ ~cur.ls.last_returns
    /\ "E" \in DOMAIN symbol_table
    /\ "e" \notin DOMAIN cur.ls.scope

(* This step is the end of the elaboration of f, after its last statement. *)
EndsFunction ==
    /\ phase = "body"
    /\ cur.finished
    /\ phase' # "body"

DeclaredType(returns) == IF returns.id = "int" THEN IntType ELSE BoolType

(* The elaboration of the statement compares each of its returns with the  *)
(* first return of the function in source order.                           *)
ReturnsAreUnified ==
    LET returns == ReturnsOfStmt(last_stmt'.ast, last_stmt'.node)
        first == IF cur.ls.first_return_stmt # NoneV THEN cur.ls.first_return_stmt
                 ELSE IF returns # <<>> THEN returns[1] ELSE NoneV
        differing == { i \in DOMAIN returns : returns[i].type # first.type }
        i0 == CHOOSE i \in differing : \A j \in differing : i <= j
    IN /\ phase' # "error" => differing = {} /\ cur'.ls.first_return_stmt = first
       /\ differing # {} =>
            /\ phase' = "error"
            /\ \/ error' = DifferentReturnType(returns[i0].node, returns[i0].type, first)
               \/ last_stmt'.is_last /\ error'.msg \in MissingReturn
       /\ differing = {} =>
            ~(phase' = "error" /\ error'.msg[1] = "Found return statement with different return type: ")

(* The function gets its declared type, the type of its returns, or        *)
(* Bottom.                                                                 *)
FunctionGetsReturnType ==
    LET returns == module[pos].returns
        first == cur.ls.first_return_stmt
    IN phase' # "error" =>
         /\ function_defns' # <<>>
         /\ function_defns'[Len(function_defns')].return_type =
                IF returns # NoneV THEN DeclaredType(returns)
                ELSE IF first = NoneV THEN BottomType ELSE first.type
         /\ returns # NoneV /\ first # NoneV => first.type = DeclaredType(returns)

C24_WitnessDeclared ==
    /\ phase = "pass2"
    /\ function_defns # <<>>
    /\ function_defns[Len(function_defns)].return_type = IntType
    /\ last_stmt # NoneV
    /\ last_stmt.ast = Try(<<Return(Num(1))>>, <<ExceptHandler(Name("E"), "e", <<Return(Num(1))>>)>>)
    /\ \E i \in DOMAIN module : module[i].k = "FunctionDef" /\ module[i].returns = Name("int")

(* A function without a return statement and without a declared return     *)
(* type has been elaborated and returns Bottom.                            *)
C24_WitnessBottom ==
    /\ phase = "pass2"
    /\ function_defns # <<>>
    /\ function_defns[Len(function_defns)].return_type = BottomType

-----------------------------------------------------------------------------
(* Headers with one `using type = ...;` of a type expression made of the   *)
(* types Y, X1 and X2, function types over them, the five modifiers on     *)
(* those, function types that return or take the modified types, and       *)
(* modifiers on those again.  No reference is applied to a reference.      *)
DeclAtoms == { AtomicTypeLiteral(cpp_type, FALSE, FALSE, ExprType("TYPE")) : cpp_type \in {"Y", "X1", "X2"} }

TypeY == AtomicTypeLiteral("Y", FALSE, FALSE, ExprType("TYPE"))
TypeX1 == AtomicTypeLiteral("X1", FALSE, FALSE, ExprType("TYPE"))
TypeX2 == AtomicTypeLiteral("X2", FALSE, FALSE, ExprType("TYPE"))

Modified(S) == { TypeModifierExpr(k, type_expr) : k \in TypeModifiers, type_expr \in S }

Pointer(type_expr) == TypeModifierExpr("PointerTypeExpr", type_expr)

DeclFunctionTypes ==
    { FunctionTypeExpr(TypeY, <<TypeX1>>), FunctionTypeExpr(TypeX1, <<TypeY>>),
      FunctionTypeExpr(TypeY, <<>>), FunctionTypeExpr(TypeY, <<TypeX1, TypeX2>>) }

DeclModifiedTypes == Modified(DeclAtoms \cup DeclFunctionTypes)

DeclNestedFunctionTypes ==
    { FunctionTypeExpr(return_type_expr, <<TypeX2>>) : return_type_expr \in DeclModifiedTypes }
    \cup { FunctionTypeExpr(TypeX2, <<arg_expr>>) : arg_expr \in DeclModifiedTypes }
    \cup { FunctionTypeExpr(Pointer(f1), <<Pointer(f2), TypeX2>>) : f1, f2 \in DeclFunctionTypes }

DeclTypeExprs ==
    DeclAtoms \cup DeclFunctionTypes \cup DeclModifiedTypes \cup DeclNestedFunctionTypes
    \cup Modified(DeclNestedFunctionTypes)
    \cup { TypeModifierExpr(k, type_expr) :
              k \in {"PointerTypeExpr", "ConstTypeExpr", "ArrayTypeExpr"},
              type_expr \in DeclModifiedTypes }

DeclHeaders == { Header(<<>>, <<Typedef("type", type_expr)>>, {}) : type_expr \in DeclTypeExprs }

InitDecl == ElabInit /\ EmitInit(DeclHeaders)

(* One run of header_to_cpp on a header without template definitions.      *)
NextDecl ==
    \/ EmitInclude(1) /\ UNCHANGED elabVars
    \/ EmitToplevelElem(1) /\ UNCHANGED elabVars
    \/ EmitFinish(1) /\ UNCHANGED elabVars

SpecDecl == InitDecl /\ [][NextDecl]_vars

ModifierToken(k) ==
    CASE k = "PointerTypeExpr" -> "*"
      [] k = "ReferenceTypeExpr" -> " &"
      [] k = "RvalueReferenceTypeExpr" -> " &&"
      [] k = "ConstTypeExpr" -> " const "
      [] k = "ArrayTypeExpr" -> "[]"

(* The declaration of something of the type expr whose declarator is       *)
(* `declarator`, the modifiers met on the way down to expr (modified: the  *)
(* last step down was through a modifier): a modifier adds its token in    *)
(* front of the declarator; a function type puts the declarator in         *)
(* parentheses exactly when it was reached through a modifier, appends     *)
(* its argument list, and hands the result to its return type.             *)
RECURSIVE Declaration(_, _, _)
Declaration(expr, declarator, modified) ==
    CASE expr.k \in TypeModifiers ->
            Declaration(expr.type_expr, ModifierToken(expr.k) \o declarator, TRUE)
      [] expr.k = "FunctionTypeExpr" ->
            Declaration(expr.return_type_expr,
                        (IF modified THEN "(" \o declarator \o ")" ELSE declarator)
                        \o " ("
                        \o JoinComma([i \in DOMAIN expr.arg_exprs |->
                                         Declaration(expr.arg_exprs[i], "", FALSE)])
                        \o ")",
                        FALSE)
      [] OTHER -> expr.cpp_type \o declarator

(* An opening parenthesis and a star. *)
Star == "(" \o "*"

(* Run 1 has just emitted the top-level element `using type = ...;`.       *)
TypedefEmitted ==
    /\ emit # NoneV
    /\ emit[1].pc = "running"
    /\ emit[1].stack = <<>>
    /\ emit[1].idx >= 2
    /\ HeaderSteps(header)[emit[1].idx - 1].op = "toplevel_elem"
    /\ HeaderSteps(header)[emit[1].idx - 1].elem.k = "Typedef"

TheTypeExpr == HeaderSteps(header)[emit[1].idx - 1].elem.expr

TypedefText == emit[1].strings[Len(emit[1].strings)]

(* C25: a function type is emitted as the prefix of its return type, `(`   *)
(* when a pointer, reference, const or array modifier is applied directly  *)
(* to it and only then, what the modifiers write, `)` in the same case,    *)
(* its argument list ` (arg1, ..., argn)` and the suffix of its return     *)
(* type.  With <p> for the star in parentheses and <p ...> for the star,   *)
(* what follows it and a closing parenthesis, all within parentheses:      *)
(* ptr(fn(Y,[X1])) is `Y<p> (X1)`, ptr(fn(ptr(fn(Y,[X1])),[X2])) is        *)
(* `Y<p <p> (X2)> (X1)` and ptr(fn(X2,[ptr(fn(X1,[Y]))])) is               *)
(* `X2<p> (X1<p> (Y))`.                                                    *)
C25_FunctionTypeDeclarators ==
    TypedefEmitted =>
        /\ emit[1].exc = ""
        /\ TypedefText = UsingType(Declaration(TheTypeExpr, "", FALSE))
        /\ TheTypeExpr = Pointer(FunctionTypeExpr(TypeY, <<TypeX1>>))
              => TypedefText = UsingType("Y" \o Star \o ") (X1)")
        /\ TheTypeExpr = Pointer(FunctionTypeExpr(Pointer(FunctionTypeExpr(TypeY, <<TypeX1>>)), <<TypeX2>>))
              => TypedefText = UsingType("Y" \o Star \o Star \o ") (X2)) (X1)")
        /\ TheTypeExpr = Pointer(FunctionTypeExpr(TypeX2, <<Pointer(FunctionTypeExpr(TypeX1, <<TypeY>>))>>))
              => TypedefText = UsingType("X2" \o Star \o ") (X1" \o Star \o ") (Y))")

(* ptr(fn(ptr(fn(Y,[X1])),[X2])) was emitted as stated.                    *)
C25_Witness ==
    /\ TypedefEmitted
    /\ TheTypeExpr = Pointer(FunctionTypeExpr(Pointer(FunctionTypeExpr(TypeY, <<TypeX1>>)), <<TypeX2>>))
    /\ TypedefText = "            using type = Y" \o Star \o Star \o ") (X2)) (X1);\n            "

(* ptr(fn(X2,[ptr(fn(X1,[Y]))])) was emitted as stated.                    *)
C25_WitnessArgument ==
    /\ TypedefEmitted
    /\ TheTypeExpr = Pointer(FunctionTypeExpr(TypeX2, <<Pointer(FunctionTypeExpr(TypeX1, <<TypeY>>))>>))
    /\ TypedefText = "            using type = X2" \o Star \o ") (X1" \o Star \o ") (Y));\n            "

(* A function type no modifier is applied to, returning a pointer, was     *)
(* emitted without parentheses: `Y* (X2)`.                                 *)
C25_WitnessUnmodified ==
    /\ TypedefEmitted
    /\ TheTypeExpr = FunctionTypeExpr(Pointer(TypeY), <<TypeX2>>)
    /\ TypedefText = "            using type = Y* (X2);\n            "

-----------------------------------------------------------------------------
(* Modules of an exception class E, a function f of a Type and a list of   *)
(* Types, and a function g with or without a declared return type.  The    *)
(* statements of the bodies bind x, T, g or c in an assignment of the      *)
(* body, in an assignment of an if branch, as the variable of a handler,   *)
(* as the loop variable of a list comprehension and as the argument of the *)
(* lambda of a match.                                                      *)
ShadowItems ==
    { ExceptionClassDef("E", <<arg("b", Name("bool"))>>,
                        <<[k |-> "SelfAssign", attr |-> "b", value |-> Name("b")]>>),
      FunctionDef("f", <<arg("T", Name("Type")), arg("l", Subscript("List", Name("Type")))>>, NoneV),
      FunctionDef("g", <<arg("b", Name("bool"))>>, NoneV),
      FunctionDef("g", <<arg("b", Name("bool"))>>, Name("bool")) }

ShadowNames == {"x", "T", "g", "c"}

ShadowStmts ==
    { Assign(name, Num(1)) : name \in {"x", "T", "g"} }
    \cup { If(NameConstant(TRUE), <<Assign(name, Num(1))>>, <<>>) : name \in ShadowNames }
    \cup { Try(<<AssertStmt(NameConstant(TRUE))>>,
               <<ExceptHandler(Name("E"), name, <<AssertStmt(NameConstant(TRUE))>>)>>) :
               name \in ShadowNames }
    \cup { Return(ListComp(Name("T"), name, Name("l"))) : name \in ShadowNames }
    \cup { Return(Match(<<Name("T")>>, <<name>>, <<Name(name)>>, <<Name(name)>>)) : name \in ShadowNames }
    \cup { If(NameConstant(TRUE),
              <<Assign("c", Num(1)), Return(ListComp(Name("T"), "c", Name("l")))>>, <<>>) }

NextShadow ==
    \/ Pass1Item(ShadowItems, MaxItems) /\ UNCHANGED ir0Vars
    \/ EndPass1 /\ UNCHANGED ir0Vars
    \/ BeginFunction /\ UNCHANGED ir0Vars
    \/ ElabStmt(ShadowStmts, MaxBodyLen) /\ UNCHANGED ir0Vars
    \/ EndFunction /\ UNCHANGED ir0Vars
    \/ SkipItem /\ UNCHANGED ir0Vars
    \/ Finish /\ UNCHANGED ir0Vars

SpecShadow == Init /\ [][NextShadow]_vars

(* The first name, in the order of elaboration, that the expression binds  *)
(* while the name is in `visible`; "" when there is none.                  *)
RECURSIVE ShadowedInExpr(_, _)
ShadowedInExpr(expr, visible) ==
    CASE expr.k = "ListComp" ->
            IF expr.target \in visible THEN expr.target
            ELSE ShadowedInExpr(expr.elt, visible \cup {expr.target})
      [] expr.k = "Match" ->
            LET shadowing == { i \in DOMAIN expr.lambda_args :
                                  \/ expr.lambda_args[i] \in visible
                                  \/ \E j \in 1..(i - 1) : expr.lambda_args[j] = expr.lambda_args[i] }
            IN IF shadowing # {}
               THEN expr.lambda_args[CHOOSE i \in shadowing : \A j \in shadowing : i <= j]
               ELSE ""
      [] OTHER -> ""

(* The same for the statements of a block from the i-th on, for the blocks *)
(* of ShadowStmts: their statements are assignments and returns.           *)
RECURSIVE ShadowedInBlock(_, _, _)
ShadowedInBlock(block, i, visible) ==
    IF i > Len(block) THEN ""
    ELSE LET stmt == block[i]
             here == CASE stmt.k = "Assign" -> IF stmt.target \in visible THEN stmt.target ELSE ""
                       [] stmt.k = "Return" -> ShadowedInExpr(stmt.value, visible)
                       [] OTHER -> ""
         IN IF here # "" THEN here
            ELSE ShadowedInBlock(block, i + 1,
                                 visible \cup (IF stmt.k = "Assign" THEN {stmt.target} ELSE {}))

(* The same for a statement of a function body.                            *)
ShadowedInStmt(stmt, visible) ==
    CASE stmt.k = "If" ->
            LET first == ShadowedInBlock(stmt.body, 1, visible)
            IN IF first # "" THEN first ELSE ShadowedInBlock(stmt.orelse, 1, visible)
      [] stmt.k = "Try" ->
            LET first == ShadowedInBlock(stmt.body, 1, visible)
                handler == stmt.handlers[1]
            IN IF first # "" THEN first
               ELSE IF handler.name \in visible THEN handler.name
               ELSE ShadowedInBlock(handler.body, 1, visible \cup {handler.name})
      [] OTHER -> ShadowedInBlock(<<stmt>>, 1, visible)

(* The names visible from the scope of the body of the function that is    *)
(* elaborated: its parameters and variables, the top-level functions, and  *)
(* the classes.                                                            *)
VisibleNames ==
    DOMAIN cur.ls.scope \cup DOMAIN symbol_table \cup DOMAIN partial_fns \cup DOMAIN custom_types

IsAlreadyDefinedError(err) ==
    /\ err.k = "CompilationError"
    /\ Len(err.msg) = 2
    /\ err.msg[2] \in {" was already defined in this scope.",
                       " could be already initialized at this point."}

(* This step elaborates a statement of the body of f that the loop gets    *)
(* to, in a module that defines E.                                         *)
ElaboratesBinders ==
    /\ ElaboratesStatement
    /\ cur.name = "f"
    /\ ~cur.ls.last_returns
    /\ "E" \in DOMAIN custom_types

C26_WitnessLambda ==
    /\ phase = "error"
    /\ cur # NoneV
    /\ cur.name = "f"
    /\ last_stmt # NoneV
    /\ last_stmt.pass = 2
    /\ last_stmt.ast = Return(Match(<<Name("T")>>, <<"T">>, <<Name("T")>>, <<Name("T")>>))
    /\ Join(error.msg) = AlreadyDefined("T")

(* A handler `except E as T` was refused for the parameter T of f.         *)
C26_WitnessHandler ==
    /\ phase = "error"
    /\ cur # NoneV
    /\ cur.name = "f"
    /\ last_stmt # NoneV
    /\ last_stmt.pass = 2
    /\ last_stmt.ast.k = "Try"
    /\ last_stmt.ast.handlers[1].name = "T"
    /\ error.msg[1] = "T"
    /\ IsAlreadyDefinedError(error)

(* An assignment to g in an if branch was refused while g, declared to     *)
(* return bool, was in the root table.                                     *)
C26_WitnessBranch ==
    /\ phase = "error"
    /\ cur # NoneV
    /\ cur.name = "f"
    /\ "g" \in DOMAIN symbol_table
    /\ last_stmt # NoneV
    /\ last_stmt.pass = 2
    /\ last_stmt.ast = If(NameConstant(TRUE), <<Assign("g", Num(1))>>, <<>>)
    /\ Join(error.msg) = AlreadyDefined("g")

(* The loop variable c of a list comprehension in an if branch was refused *)
(* for the variable c of that branch.                                      *)
C26_WitnessNested ==
    /\ phase = "error"
    /\ cur # NoneV
    /\ cur.name = "f"
    /\ "c" \notin DOMAIN cur.ls.scope
    /\ last_stmt # NoneV
    /\ last_stmt.pass = 2
    /\ last_stmt.ast.k = "If"
    /\ Len(last_stmt.ast.body) = 2
    /\ Join(error.msg) = AlreadyDefined("c")

-----------------------------------------------------------------------------
(* Bodies of f with try statements whose body and handler return or not,   *)
(* with handler variable e or d, followed by references to e, assignments  *)
(* to e and further try statements.                                        *)
HandlerStmts ==
    LET A == AssertStmt(Name("b"))
        R == Return(Num(1))
    IN { Try(body, <<ExceptHandler(Name("E"), name, handler)>>) :
             body \in {<<A>>, <<R>>}, name \in {"e", "d"}, handler \in {<<A>>, <<R>>} }
       \cup { Assign("e", Num(1)), Assign("z", Name("e")), Return(Name("e")), A, R }

NextHandler ==
    \/ Pass1Item(BranchItems, MaxItems) /\ UNCHANGED ir0Vars
    \/ EndPass1 /\ UNCHANGED ir0Vars
    \/ BeginFunction /\ UNCHANGED ir0Vars
    \/ ElabStmt(HandlerStmts, MaxBodyLen) /\ UNCHANGED ir0Vars
    \/ EndFunction /\ UNCHANGED ir0Vars
    \/ SkipItem /\ UNCHANGED ir0Vars
    \/ Finish /\ UNCHANGED ir0Vars

SpecHandler == Init /\ [][NextHandler]_vars

(* This step elaborates a statement of the body of f that the loop gets    *)
(* to, in a module that defines E.                                         *)
ElaboratesAroundHandlers ==
    /\ ElaboratesStatement
    /\ ~cur.ls.last_returns
    /\ "E" \in DOMAIN custom_types

(* The name is bound in the scope of the body of f to an exception of      *)
(* class E: by the handler of an earlier try statement.                    *)
BoundByHandler(name) ==
    /\ name \in DOMAIN cur.ls.scope
    /\ cur.ls.scope[name].type.k = "Custom"
    /\ cur.ls.scope[name].type.name = "E"

(* After a try statement that was elaborated, the variable of its handler  *)
(* is bound in the scope of the body of f when the handler does not always *)
(* return, partially when the try body does not always return either.      *)
HandlerVariableEscapes ==
    LET stmt == last_stmt'.ast
        name == stmt.handlers[1].name
        body_returns == StatementAlwaysReturns(stmt.body[Len(stmt.body)])
        handler_returns == StatementAlwaysReturns(stmt.handlers[1].body[Len(stmt.handlers[1].body)])
    IN IF handler_returns THEN name \notin DOMAIN cur'.ls.scope
       ELSE /\ name \in DOMAIN cur'.ls.scope
            /\ cur'.ls.scope[name].type.k = "Custom"
            /\ cur'.ls.scope[name].type.name = "E"
            /\ cur'.ls.scope[name].is_only_partially_defined = ~body_returns
            /\ cur'.ls.scope[name].ast_node = last_stmt'.node \o <<3>>

MayBeUninitialised ==
    <<"Reference to a variable that may or may not have been initialized (depending on which branch was taken)">>

(* A statement that refers to the handler variable e follows the rule of   *)
(* partially defined variables; an assignment to e and a try statement     *)
(* whose handler variable is bound by an earlier handler are refused.      *)
HandlerVariableIsVisibleLater ==
    LET stmt == last_stmt'.ast
        partial == cur.ls.scope["e"].is_only_partially_defined
    IN /\ ( BoundByHandler("e") /\ stmt \in {Assign("z", Name("e")), Return(Name("e"))} )
            => IF partial
               THEN phase' = "error" /\ error'.k = "CompilationError" /\ error'.msg = MayBeUninitialised
               ELSE ~(phase' = "error" /\ error'.msg = MayBeUninitialised)
       /\ ( \/ BoundByHandler("e") /\ stmt = Assign("e", Num(1))
            \/ stmt.k = "Try" /\ BoundByHandler(stmt.handlers[1].name) )
            => /\ phase' = "error"
               /\ error'.k = "CompilationError"
               /\ \/ LET name == IF stmt.k = "Try" THEN stmt.handlers[1].name ELSE "e"
                     IN Join(error'.msg) = (IF cur.ls.scope[name].is_only_partially_defined
                                            THEN MaybeAlreadyInitialised(name)
                                            ELSE AlreadyDefined(name))
                  \/ stmt.k = "Try" /\ last_stmt'.is_last /\ error'.msg \in MissingReturn

C27_WitnessFullyDefined ==
    /\ phase = "error"
    /\ cur # NoneV
    /\ "e" \in DOMAIN cur.ls.scope
    /\ ~cur.ls.scope["e"].is_only_partially_defined
    /\ cur.ls.scope["e"].type.k = "Custom"
    /\ last_stmt # NoneV
    /\ last_stmt.pass = 2
    /\ last_stmt.ast = Assign("z", Name("e"))
    /\ error.msg \in MissingReturn

(* A reference to e, partially defined by a handler, was refused.          *)
C27_WitnessReference ==
    /\ phase = "error"
    /\ cur # NoneV
    /\ "e" \in DOMAIN cur.ls.scope
    /\ cur.ls.scope["e"].is_only_partially_defined
    /\ cur.ls.scope["e"].type.k = "Custom"
    /\ last_stmt # NoneV
    /\ last_stmt.pass = 2
    /\ last_stmt.ast = Return(Name("e"))
    /\ error.msg = MayBeUninitialised

-----------------------------------------------------------------------------
(*        Definitions a Transformation writes of its own (C28)             *)

(* The elements the Transformations are run on: literals of kind BOOL and  *)
(* INT64, type literals of kind TYPE and TEMPLATE, and the expansion of a  *)
(* variadic parameter, whose kind new_constant_or_typedef does not take.   *)
RewriteToplevelElems ==
    {StaticAssert(Literal(TRUE), "msg"),
     StaticAssert(BinaryExpr("ComparisonExpr", Literal(1), Literal(2), "!=", ExprType("BOOL")),
                  "msg"),
     ConstantDef("value", UnaryExpr("UnaryMinusExpr", Literal(1), ExprType("INT64"))),
     Typedef("type", TypeModifierExpr("PointerTypeExpr", IntTypeLiteral)),
     Typedef("Vec", VectorTemplate),
     Typedef("type", UnaryExpr("VariadicTypeExpansion",
                               for_local("Ts", ExprType("VARIADIC_TYPE")), ExprType("TYPE")))}

RewriteHeaders ==
    {Header(<<SpecializedTemplateDefn("Other", <<>>, other),
              MainTemplateDefn("Outer", <<TemplateArgDecl(ExprType("TYPE"), "T")>>, body)>>,
            content, {"Outer"}) :
        other \in {<<>>, <<ConstantDef("value", Literal(1))>>},
        body \in Bodies(NestedTemplateDefns \cup RewriteToplevelElems, MaxBodyElems),
        content \in {<<>>} \cup Bodies(RewriteToplevelElems, 1)}

InitRewrite ==
    /\ ElabInit
    /\ header \in RewriteHeaders
    /\ generator = <<0, 0>>
    /\ emit = NoneV
    /\ \E transformation \in Transformations :
          xform = [pc |-> "running", i |-> 1,
                   writer |-> [ToplevelWriter(generator[1])
                                  EXCEPT !.transformation = transformation],
                   result |-> NoneV, exc |-> ""]

NextRewrite ==
    \/ TransformTemplateDefn /\ UNCHANGED elabVars
    \/ TransformToplevelElem /\ UNCHANGED elabVars
    \/ TransformHeaderReturn /\ UNCHANGED elabVars

SpecRewrite == InitRewrite /\ [][NextRewrite]_vars

(* The identifiers the run has drawn.                                      *)
FreshNames == {identifier_generator(k) : k \in 1..xform.writer.gen}

(* The type literals named name in an expression.                          *)
RECURSIVE ReferencesIn(_, _)
ReferencesIn(expr, name) ==
    CASE expr.k = "Literal" -> {}
      [] expr.k = "AtomicTypeLiteral" -> IF expr.cpp_type = name THEN {expr} ELSE {}
      [] expr.k \in TypeModifiers -> ReferencesIn(expr.type_expr, name)
      [] expr.k = "FunctionTypeExpr" ->
            ReferencesIn(expr.return_type_expr, name)
            \cup UNION {ReferencesIn(expr.arg_exprs[i], name) : i \in DOMAIN expr.arg_exprs}
      [] expr.k \in {"ComparisonExpr", "Int64BinaryOpExpr"} ->
            ReferencesIn(expr.lhs, name) \cup ReferencesIn(expr.rhs, name)
      [] expr.k = "TemplateInstantiation" ->
            ReferencesIn(expr.template_expr, name)
            \cup UNION {ReferencesIn(expr.args[i], name) : i \in DOMAIN expr.args}
      [] OTHER -> ReferencesIn(expr.expr, name)

(* The main definition and the specializations of a template definition.  *)
AllSpecializations(template_defn) ==
    (IF template_defn.main_definition # NoneV THEN <<template_defn.main_definition>> ELSE <<>>)
    \o template_defn.specializations

PatternsOf(specialization) ==
    IF specialization.patterns # NoneV THEN specialization.patterns.items ELSE <<>>

(* The type literals named name in an element, those in the patterns and   *)
(* the bodies of a template definition included.                           *)
RECURSIVE ReferencesInElem(_, _)
ReferencesInElem(elem, name) ==
    IF elem.k = "TemplateDefn"
    THEN UNION {UNION {ReferencesIn(PatternsOf(AllSpecializations(elem)[s])[i], name) :
                          i \in DOMAIN PatternsOf(AllSpecializations(elem)[s])}
                \cup UNION {ReferencesInElem(AllSpecializations(elem)[s].body[i], name) :
                               i \in DOMAIN AllSpecializations(elem)[s].body} :
                s \in DOMAIN AllSpecializations(elem)}
    ELSE ReferencesIn(elem.expr, name)

Defines(elem, name) == elem.k \in {"ConstantDef", "Typedef"} /\ elem.name = name

(* The definitions of name in a list of elements, at any depth.            *)
RECURSIVE DefinitionsIn(_, _)
DefinitionsIn(elems, name) ==
    UNION {IF elems[i].k = "TemplateDefn"
           THEN UNION {DefinitionsIn(AllSpecializations(elems[i])[s].body, name) :
                          s \in DOMAIN AllSpecializations(elems[i])}
           ELSE IF Defines(elems[i], name) THEN {elems[i]} ELSE {} : i \in DOMAIN elems}

RECURSIVE CountDefinitions(_, _)
CountDefinitions(elems, name) ==
    IF elems = <<>> THEN 0
    ELSE CountDefinitions(Tail(elems), name)
         + (IF Head(elems).k = "TemplateDefn"
            THEN LET RECURSIVE Sum(_)
                     Sum(specializations) ==
                         IF specializations = <<>> THEN 0
                         ELSE CountDefinitions(Head(specializations).body, name)
                              + Sum(Tail(specializations))
                 IN Sum(AllSpecializations(Head(elems)))
            ELSE IF Defines(Head(elems), name) THEN 1 ELSE 0)

(* In a list of elements, every element that refers to name comes after    *)
(* an element of the list that defines it, or is a template definition     *)
(* whose patterns do not refer to it and whose bodies are so ordered.      *)
RECURSIVE DefinitionPrecedesUse(_, _)
DefinitionPrecedesUse(elems, name) ==
    \A u \in DOMAIN elems :
        ReferencesInElem(elems[u], name) # {} =>
            \/ \E d \in 1..(u - 1) : Defines(elems[d], name)
            \/ /\ elems[u].k = "TemplateDefn"
               /\ \A s \in DOMAIN AllSpecializations(elems[u]) :
                     /\ \A i \in DOMAIN PatternsOf(AllSpecializations(elems[u])[s]) :
                           ReferencesIn(PatternsOf(AllSpecializations(elems[u])[s])[i], name) = {}
                     /\ DefinitionPrecedesUse(AllSpecializations(elems[u])[s].body, name)

(* The elements in the order of the Header and of the text made of it: the *)
(* template definitions, then the toplevel content.                        *)
OutputOf(template_defns, toplevel_content) == template_defns \o toplevel_content

IsTemplateDefn(elem) == elem.k = "TemplateDefn"

(* No template definition is left in the bodies of a template definition.  *)
HasNoNestedTemplateDefn(template_defn) ==
    \A s \in DOMAIN AllSpecializations(template_defn) :
        SelectSeq(AllSpecializations(template_defn)[s].body, IsTemplateDefn) = <<>>

(* The template definitions that were nested in the body of Outer are in   *)
(* template_defns right before the Outer that was made of it, in their     *)
(* order.                                                                  *)
NestedTemplateDefnsPrecedeTheirOutermost(template_defns) ==
    \A j \in DOMAIN template_defns :
        template_defns[j].name = "Outer" =>
            /\ HasNoNestedTemplateDefn(template_defns[j])
            /\ SubSeq(template_defns, 2, j - 1)
                  = SelectSeq(header.template_defns[2].main_definition.body, IsTemplateDefn)

(* What new_constant_or_typedef and the rewrites made of a drawn name: one *)
(* definition, a ConstantDef of an expression of kind BOOL or INT64 or a   *)
(* Typedef of one of kind TYPE or TEMPLATE, and references that are the    *)
(* local type literal of that name and of the type of the expression.      *)
IsNamedByLocalTypeLiteral(elems, name) ==
    /\ CountDefinitions(elems, name) = 1
    /\ \A defn \in DefinitionsIn(elems, name) :
          /\ defn.k = "ConstantDef" <=> defn.expr.type.kind \in {"BOOL", "INT64"}
          /\ defn.k = "Typedef" <=> defn.expr.type.kind \in {"TYPE", "TEMPLATE"}
          /\ UNION {ReferencesInElem(elems[u], name) : u \in DOMAIN elems}
                = {AtomicTypeLiteral(name, TRUE, defn.expr.type.kind = "TEMPLATE",
                                     defn.expr.type)}

(* C28, as stated: in the Header a Transformation returns, every           *)
(* definition the rewrite wrote under a drawn name comes before the        *)
(* elements that refer to it, the toplevel template definition whose body  *)
(* refers to it included, and the template definitions sent to the top     *)
(* level come before the template definition they were in.                 *)
C28_AsStated ==
    xform.pc = "done" =>
        /\ \A name \in FreshNames :
              DefinitionPrecedesUse(OutputOf(xform.result.template_defns,
                                             xform.result.toplevel_content), name)
        /\ xform.writer.transformation = "TemplateDefnsToToplevel" =>
              NestedTemplateDefnsPrecedeTheirOutermost(xform.result.template_defns)

(* C28: after every step of transform_header, in the lists of its writer:  *)
(* a definition written under a drawn name comes before the elements of    *)
(* its own list that refer to it (the body it was written to, or the       *)
(* toplevel elements); a toplevel template definition that refers to a     *)
(* name not defined in its own bodies finds the definition among the       *)
(* toplevel elements, which the Header holds apart from, and after, the    *)
(* template definitions; a template definition sent to the top level from  *)
(* a body comes before the template definition it was in; and every drawn  *)
(* name has one definition, of the class its kind asks for, and is         *)
(* referred to by the local type literal of its name and type.             *)
C28_InjectedDefinitionsPrecedeUse ==
    xform.pc \in {"running", "done"} =>
        /\ \A name \in FreshNames :
              /\ DefinitionPrecedesUse(xform.writer.toplevel_elems, name)
              /\ \A j \in DOMAIN xform.writer.template_defns :
                    \/ DefinitionPrecedesUse(<<xform.writer.template_defns[j]>>, name)
                    \/ \E d \in DOMAIN xform.writer.toplevel_elems :
                          Defines(xform.writer.toplevel_elems[d], name)
              /\ IsNamedByLocalTypeLiteral(
                    OutputOf(xform.writer.template_defns, xform.writer.toplevel_elems), name)
        /\ xform.writer.transformation = "TemplateDefnsToToplevel" =>
              NestedTemplateDefnsPrecedeTheirOutermost(xform.writer.template_defns)
        /\ xform.pc = "done" =>
              /\ xform.result.template_defns = xform.writer.template_defns
              /\ xform.result.toplevel_content = xform.writer.toplevel_elems

(* NameLiterals has run on a Header whose Outer has a nested template      *)
(* definition with a pattern and a typedef of std::vector: the typedefs    *)
(* X2 and X3 it made are in the body of Outer, before the elements that    *)
(* refer to them, and X1, made of the pattern of Other, is a toplevel      *)
(* element.                                                                *)
C28_Witness ==
    /\ xform.pc = "done"
    /\ xform.writer.transformation = "NameLiterals"
    /\ Len(xform.result.template_defns) = 2
    /\ Len(xform.result.template_defns[2].main_definition.body) = 4
    /\ xform.result.template_defns[2].main_definition.body[1] = Typedef("X2", IntTypeLiteral)
    /\ xform.result.template_defns[2].main_definition.body[2].name = "Inner"
    /\ PatternsOf(xform.result.template_defns[2].main_definition.body[2].specializations[1])
          = <<for_local("X2", ExprType("TYPE"))>>
    /\ xform.result.template_defns[2].main_definition.body[3] = Typedef("X4", VectorTemplate)
    /\ xform.result.template_defns[2].main_definition.body[4]
          = Typedef("Vec", for_local("X4", TemplateType(<<ExprType("TYPE")>>)))
    /\ xform.result.toplevel_content = <<Typedef("X1", IntTypeLiteral)>>

(* LiteralsToToplevel has run: the ConstantDef of the literal of a static  *)
(* assert in the body of Outer is a toplevel element, after Outer.         *)
C28_WitnessToplevel ==
    /\ xform.pc = "done"
    /\ xform.writer.transformation = "LiteralsToToplevel"
    /\ xform.result.template_defns[2].main_definition.body
          = <<StaticAssert(for_local("X1", ExprType("BOOL")), "msg")>>
    /\ xform.result.toplevel_content = <<ConstantDef("X1", Literal(TRUE))>>

(* TemplateDefnsToToplevel has run: Inner, that was in the body of Outer,  *)
(* is a toplevel template definition, before Outer.                        *)
C28_WitnessTemplateDefn ==
    /\ xform.pc = "done"
    /\ xform.writer.transformation = "TemplateDefnsToToplevel"
    /\ Len(xform.result.template_defns) = 3
    /\ xform.result.template_defns[2].name = "Inner"
    /\ xform.result.template_defns[3].name = "Outer"
    /\ Len(header.template_defns[2].main_definition.body) = 2

-----------------------------------------------------------------------------
(*          The add operations of a CompilationContext (C29)               *)

(* CompilationContext.add_symbol_for_function_with_unknown_return_type:    *)
(* [err, partial], the map being the one the call leaves.                  *)
AddSymbolForFunctionWithUnknownReturnType(scopes, g, name, definition_ast_node) ==
    With(CheckNotAlreadyDefined(scopes, g, name, definition_ast_node), LAMBDA err :
         IF err # NoneV THEN [err |-> err, partial |-> g.partial]
         ELSE [err |-> NoneV,
               partial |-> [n \in DOMAIN g.partial \cup {name} |->
                               IF n = name THEN definition_ast_node ELSE g.partial[n]]])

AddNames == {"x", "f", "E"}

AddCustomTypes ==
    {CustomType(name, arg_types, FALSE) :
        name \in AddNames, arg_types \in {<<>>, <<[name |-> "x", type |-> BoolType]>>}}

(* The node of the next call: calls are told apart by their number.        *)
NextAddNode == <<Len(module) + 1>>

(* The call is over: with the tables as it leaves them, and with the       *)
(* CompilationError it raised, that ends the compilation, if it raised.    *)
(* Here module holds the calls made so far, one entry for each.            *)
AddReturns(call, err) ==
    /\ module' = Append(module, call)
    /\ last_stmt' = call
    /\ IF err # NoneV THEN RaiseError(err) ELSE UNCHANGED <<phase, error>>
    /\ UNCHANGED <<pos, function_defns, assertions>>

(* The calls module_ast_to_ir3 makes on the context of the module, while   *)
(* no child context exists: add_symbol for a function with a declared      *)
(* return type (lines 217-222).                                            *)
RootAddSymbol ==
    /\ phase = "pass1"
    /\ \E name \in AddNames, returns \in {BoolType, IntType} :
          With(AddSymbol(LoopState(symbol_table, NoneV), <<>>, Shared(""), name,
                         FunctionType(<<>>, returns), NextAddNode, FALSE, TRUE),
               LAMBDA ls :
                  /\ symbol_table' = ls.scope
                  /\ AddReturns([op |-> "add_symbol", name |-> name, node |-> NextAddNode,
                                 on_root |-> TRUE],
                                IF ls.errs = {} THEN NoneV ELSE CHOOSE err \in ls.errs : TRUE)
                  /\ UNCHANGED <<custom_types, partial_fns, cur>>)

(* add_symbol_for_function_with_unknown_return_type (lines 225-227).       *)
RootAddSymbolForFunctionWithUnknownReturnType ==
    /\ phase = "pass1"
    /\ \E name \in AddNames :
          With(AddSymbolForFunctionWithUnknownReturnType(<<symbol_table>>, Shared(""), name,
                                                         NextAddNode),
               LAMBDA added :
                  /\ partial_fns' = added.partial
                  /\ AddReturns([op |-> "add_symbol_for_function_with_unknown_return_type",
                                 name |-> name, node |-> NextAddNode, on_root |-> TRUE],
                                added.err)
                  /\ UNCHANGED <<symbol_table, custom_types, cur>>)

(* add_custom_type_symbol (lines 249-250).                                 *)
RootAddCustomTypeSymbol ==
    /\ phase = "pass1"
    /\ \E custom_type \in AddCustomTypes :
          With(AddCustomTypeSymbol(symbol_table, Shared(""), custom_type, NextAddNode),
               LAMBDA added :
                  /\ symbol_table' = added.symbol_table
                  /\ custom_types' = added.custom_types
                  /\ AddReturns([op |-> "add_custom_type_symbol", name |-> custom_type.name,
                                 node |-> NextAddNode, on_root |-> TRUE,
                                 custom_type |-> custom_type],
                                added.err)
                  /\ UNCHANGED <<partial_fns, cur>>)

(* create_child_context(function_name="f"): from now on the calls are made *)
(* on the child context.                                                   *)
CreateChildContext ==
    /\ phase = "pass1"
    /\ phase' = "body"
    /\ cur' = FunctionBody("f", LoopState(EmptyTable, NoneV), <<>>)
    /\ UNCHANGED <<module, pos, symbol_table, custom_types, partial_fns, last_stmt, error,
                   function_defns, assertions>>

(* add_symbol on the child context: a variable, fully or only partially    *)
(* defined.                                                                *)
ChildAddSymbol ==
    /\ phase = "body"
    /\ \E name \in AddNames, type \in {BoolType, IntType}, partial \in BOOLEAN :
          With(AddSymbol(cur.ls, <<symbol_table>>, Shared(cur.name), name, type, NextAddNode,
                         partial, FALSE),
               LAMBDA ls :
                  /\ cur' = [cur EXCEPT !.ls.scope = ls.scope]
                  /\ AddReturns([op |-> "add_symbol", name |-> name, node |-> NextAddNode,
                                 on_root |-> FALSE],
                                IF ls.errs = {} THEN NoneV ELSE CHOOSE err \in ls.errs : TRUE)
                  /\ UNCHANGED <<symbol_table, custom_types, partial_fns>>)

InitAdd == ElabInit /\ Ir0Idle

NextAdd ==
    \/ RootAddSymbol /\ UNCHANGED ir0Vars
    \/ RootAddSymbolForFunctionWithUnknownReturnType /\ UNCHANGED ir0Vars
    \/ RootAddCustomTypeSymbol /\ UNCHANGED ir0Vars
    \/ CreateChildContext /\ UNCHANGED ir0Vars
    \/ ChildAddSymbol /\ UNCHANGED ir0Vars

SpecAdd == InitAdd /\ [][NextAdd]_vars

(* This step is a call of one of the add operations.                       *)
IsAddCall == module' # module

(* What the context on which the call is made sees of a name: the value    *)
(* tables of its scopes, the custom types table, the partial function map. *)
IsVisibleToCall(name, on_root) ==
    \/ name \in DOMAIN symbol_table
    \/ ~on_root /\ name \in DOMAIN cur.ls.scope
    \/ name \in DOMAIN custom_types
    \/ name \in DOMAIN partial_fns

TablesUnchanged ==
    /\ symbol_table' = symbol_table
    /\ custom_types' = custom_types
    /\ partial_fns' = partial_fns
    /\ cur' = cur

(* The class is bound as a value, its constructor, and as a type.          *)
ClassIsBoundInBothTables(custom_type, node) ==
    /\ custom_type.name \in DOMAIN symbol_table'
    /\ symbol_table'[custom_type.name]
          = [type |-> FunctionType([i \in 1..Len(custom_type.arg_types) |->
                                       custom_type.arg_types[i].type], custom_type),
             ast_node |-> node, is_only_partially_defined |-> FALSE,
             is_function_that_may_throw |-> FALSE]
    /\ custom_type.name \in DOMAIN custom_types'
    /\ custom_types'[custom_type.name]
          = [type |-> custom_type, ast_node |-> node, is_only_partially_defined |-> FALSE,
             is_function_that_may_throw |-> FALSE]
    /\ \A name \in DOMAIN symbol_table : symbol_table'[name] = symbol_table[name]
    /\ \A name \in DOMAIN custom_types : custom_types'[name] = custom_types[name]
    /\ DOMAIN symbol_table' = DOMAIN symbol_table \cup {custom_type.name}
    /\ DOMAIN custom_types' = DOMAIN custom_types \cup {custom_type.name}
    /\ partial_fns' = partial_fns

(* C29: a call of add_symbol, add_custom_type_symbol or                    *)
(* add_symbol_for_function_with_unknown_return_type raises exactly when    *)
(* the name is visible to its context, the error is one of the two         *)
(* already-defined errors, and then the value table of every scope, the    *)
(* custom types table and the partial function map are as they were; an    *)
(* add_custom_type_symbol that returns has bound the class in the value    *)
(* table, as a function to the class that may not throw, and in the custom *)
(* types table.                                                            *)
C29_FailedAddIsAtomic ==
    [][IsAddCall =>
          /\ error' # NoneV <=> IsVisibleToCall(last_stmt'.name, last_stmt'.on_root)
          /\ error' # NoneV => IsAlreadyDefinedError(error') /\ TablesUnchanged
          /\ error' = NoneV /\ last_stmt'.op = "add_custom_type_symbol" =>
                ClassIsBoundInBothTables(last_stmt'.custom_type, last_stmt'.node)]_vars

(* add_custom_type_symbol was refused for a class E whose name is that of  *)
(* a function of unknown return type, after another class was added.       *)
C29_Witness ==
    /\ phase = "error"
    /\ last_stmt.op = "add_custom_type_symbol"
    /\ last_stmt.name = "E"
    /\ "E" \in DOMAIN partial_fns
    /\ "E" \notin DOMAIN custom_types
    /\ "f" \in DOMAIN custom_types
    /\ "f" \in DOMAIN symbol_table
    /\ ~symbol_table["f"].is_function_that_may_throw

(* add_symbol was refused on the child context for the name of a class.    *)
C29_WitnessChild ==
    /\ phase = "error"
    /\ last_stmt.op = "add_symbol"
    /\ ~last_stmt.on_root
    /\ last_stmt.name \in DOMAIN custom_types
    /\ "x" \in DOMAIN cur.ls.scope

(* add_symbol_for_function_with_unknown_return_type was refused.           *)
C29_WitnessUnknownReturnType ==
    /\ phase = "error"
    /\ last_stmt.op = "add_symbol_for_function_with_unknown_return_type"
    /\ partial_fns # EmptyTable

(* add_custom_type_symbol returned.                                        *)
C29_WitnessAdded ==
    /\ phase = "pass1"
    /\ last_stmt # NoneV
    /\ last_stmt.op = "add_custom_type_symbol"
    /\ Len(module) = 3

-----------------------------------------------------------------------------
(*     Flagged instantiations with no, one or two arguments (C30)          *)

(* Templates with no parameter, with a variadic one and with two, and the  *)
(* variadic type Us, which is no parameter of the enclosing templates.     *)
GuardTemplate(argtypes) == AtomicTypeLiteral("Box", FALSE, FALSE, TemplateType(argtypes))

VariadicUs == for_local("Us", ExprType("VARIADIC_TYPE"))

GuardArgLists ==
    {<<>>,
     <<VariadicUs>>,
     <<Literal(TRUE), IntTypeLiteral>>,
     <<VectorTemplate, Literal(1)>>,
     <<VectorTemplate, VectorTemplate>>,
     <<IntTypeLiteral, for_local("T", ExprType("TYPE"))>>}

GuardBodyElems ==
    {Typedef("type",
             TemplateInstantiation(GuardTemplate([i \in DOMAIN args |-> args[i].type]), args, TRUE)) :
        args \in GuardArgLists}
    \cup {StaticAssert(Literal(TRUE), "msg")}
    \cup NestedTemplateDefns

GuardHeaders ==
    {Header(<<template_defn>>, <<>>, {"Outer"}) :
        template_defn \in TemplateDefnsOver(EmitParamLists, GuardBodyElems, MaxBodyElems)}
    \cup {Header(<<MainTemplateDefn("Outer", <<TemplateArgDecl(ExprType("TYPE"), "T")>>, <<elem>>),
                   SpecializedTemplateDefn("Other", <<>>, <<>>)>>,
                 <<StaticAssert(Literal(TRUE), "msg")>>, {"Outer", "Other"}) :
            elem \in GuardBodyElems}

InitGuard == ElabInit /\ EmitInit(GuardHeaders)

SpecGuard == InitGuard /\ [][NextEmit]_vars

(* The next step of the run emits the typedef of a flagged instantiation   *)
(* in a specialization that has parameters.                                *)
AtFlaggedInstantiation ==
    /\ InFrame(1)
    /\ TopFrame(1).j >= 1
    /\ TopFrame(1).j <= Len(TopFrame(1).specs[TopFrame(1).k].body)
    /\ TopFrame(1).specs[TopFrame(1).k].body[TopFrame(1).j].k = "Typedef"
    /\ TopFrame(1).specs[TopFrame(1).k].body[TopFrame(1).j].expr.k = "TemplateInstantiation"
    /\ TopFrame(1).specs[TopFrame(1).k].body[TopFrame(1).j].expr
          .instantiation_might_trigger_static_asserts
    /\ TopFrame(1).specs[TopFrame(1).k].args # <<>>

TheInstantiation == TopFrame(1).specs[TopFrame(1).k].body[TopFrame(1).j].expr

TheParams == TopFrame(1).specs[TopFrame(1).k].args

(* The C++ text of the arguments of GuardArgLists.                         *)
GuardArgText(a) ==
    CASE a = Literal(TRUE) -> "true"
      [] a = Literal(1) -> "1LL"
      [] OTHER -> a.cpp_type

(* wrapper<a, param>::value as an argument of a template.                  *)
WrappedArgText(wrapper, a, param) ==
    (IF a.type.kind = "TYPE" THEN "typename " ELSE "")
    \o wrapper \o "<" \o GuardArgText(a) \o ", " \o param \o ">::"
    \o (IF a.type.kind = "TEMPLATE" THEN "template " ELSE "") \o "value"

(* The names the emitter has for a wrapper: those of its dict, and the     *)
(* identifiers it draws for the templates it defines itself.               *)
GuardWrappers ==
    {select1st_variant(x, y) : x \in {"BOOL", "INT64", "TYPE"},
                               y \in {"BOOL", "INT64", "TYPE", "VARIADIC_TYPE"}}
    \cup {identifier_generator(k) : k \in 1..(generator'[1])}

(* Box<...> with the arguments as they are but the i-th, which is wrapped. *)
GuardedInstantiationText(args, i, wrapper, param) ==
    UsingType("Box<"
              \o JoinComma([h \in DOMAIN args |->
                               IF h = i THEN WrappedArgText(wrapper, args[h], param)
                               ELSE GuardArgText(args[h])])
              \o ">")

(* C30, as stated: the emission of a flagged instantiation inside a        *)
(* template with parameters completes, with no arguments and with a        *)
(* variadic type as the argument to wrap too; when no argument refers to a *)
(* parameter, the text has the arguments of the instantiation, in their    *)
(* order, one of them wrapped in a Select1st template together with a      *)
(* parameter, and when one does the arguments are emitted as they are.     *)
C30_AsStated ==
    [][AtFlaggedInstantiation =>
          /\ emit'[1].pc = "running"
          /\ emit'[1].exc = ""
          /\ Len(emit'[1].stack) = Len(emit[1].stack)
          /\ LET strings == emit'[1].stack[Len(emit[1].stack)].strings
                 args == TheInstantiation.args
             IN IF \E h \in DOMAIN args : references_any_of(args[h], ParamNames(TheParams))
                THEN strings[Len(strings)]
                        = UsingType("Box<" \o JoinComma([h \in DOMAIN args |->
                                                            GuardArgText(args[h])]) \o ">")
                ELSE \E i \in DOMAIN args, wrapper \in GuardWrappers, p \in DOMAIN TheParams :
                        strings[Len(strings)]
                           = GuardedInstantiationText(args, i, wrapper, TheParams[p].name)]_vars

(* The emission of Box<> flagged, in a template with the parameter T,      *)
(* failed the assertion of _select_best_arg_expr_index_for_select1st.      *)
C30_Witness ==
    /\ emit[1].pc = "raised"
    /\ emit[1].exc = "AssertionError"
    /\ Len(header.template_defns) = 1
    /\ header.template_defns[1].main_definition # NoneV
    /\ header.template_defns[1].main_definition.args = <<TemplateArgDecl(ExprType("TYPE"), "T")>>
    /\ header.template_defns[1].main_definition.body
          = <<Typedef("type", TemplateInstantiation(GuardTemplate(<<>>), <<>>, TRUE))>>

(* The emission of Box<Us> flagged, Us a variadic type, failed the lookup  *)
(* of the Select1st template in a template with the parameter T.           *)
C30_WitnessVariadic ==
    /\ emit[1].pc = "raised"
    /\ emit[1].exc = "KeyError"
    /\ Len(header.template_defns) = 1
    /\ header.template_defns[1].main_definition # NoneV
    /\ header.template_defns[1].main_definition.args = <<TemplateArgDecl(ExprType("TYPE"), "T")>>
    /\ header.template_defns[1].main_definition.body
          = <<Typedef("type", TemplateInstantiation(GuardTemplate(<<ExprType("VARIADIC_TYPE")>>),
                                                    <<VariadicUs>>, TRUE))>>

(* With two arguments the emission completes: the first argument that is   *)
(* no template is the one wrapped, the second here.                        *)
C30_WitnessGuarded ==
    /\ InFrame(1)
    /\ TopFrame(1).j = 2
    /\ TopFrame(1).specs[TopFrame(1).k].args = <<TemplateArgDecl(ExprType("TYPE"), "T")>>
    /\ TopFrame(1).specs[TopFrame(1).k].body[1]
          = Typedef("type",
                    TemplateInstantiation(
                        GuardTemplate(<<TemplateType(<<ExprType("TYPE")>>), ExprType("INT64")>>),
                        <<VectorTemplate, Literal(1)>>, TRUE))
    /\ TopFrame(1).strings
          = <<GuardedInstantiationText(<<VectorTemplate, Literal(1)>>, 2, "Select1stInt64Type", "T")>>

=============================================================================
